---- MODULE Spec2Model ----
(***************************************************************************)
(* The OneQ sales-proposal calculation pipeline: the roadmap normalizer,   *)
(* the DIY cost estimator, the revenue projector, the pricing tool and the *)
(* consistency checker, as the directCalculationWorkflow chains them and   *)
(* as the agent may invoke each of them on its own.                        *)
(*                                                                         *)
(* Numbers.  The tools compute in JavaScript doubles.  The model computes  *)
(* every product and quotient exactly, as a fraction num/den of integers,  *)
(* and applies Math.round (round half up) to the exact value.  Decimal     *)
(* constants are carried as integers over a power of ten: 0.35 is 35 over  *)
(* 100, the compliance multiplier 1.15 is 115 over 100.  A double product  *)
(* differs from the exact value by a relative error near 1e-16, far below  *)
(* the distance of any value of the model from a .5 tie, so both round to  *)
(* the same integer, unless the exact value is itself a .5 tie: there the  *)
(* double may lie just below the tie and round down where the model rounds *)
(* up (169750 * 0.35 rounds to 59412, the model's exact 59412.5 to 59413). *)
(* No property below depends on the direction such a tie is rounded in.    *)
(* The one comparison against a decimal threshold, the checker's           *)
(* deviation < 0.05, is modelled exactly away from the threshold and by    *)
(* the doubles' outcome at it (boundaryWithinRange).                       *)
(*                                                                         *)
(* Text.  A roadmap text is a finite set of phrases, standing for the      *)
(* phrases joined by ", ".  No keyword of any table holds a comma, so the  *)
(* text includes a keyword exactly when one of its phrases does.           *)
(***************************************************************************)
EXTENDS Integers, Sequences, FiniteSets, TLC

VARIABLES
    pc,          \* position of the workflow run: "idle", a step id, "done", "failed"
    inputData,   \* the workflow's input record
    normalized,  \* output of step normalizeInput
    diy,         \* output of step calculateDIY
    revenue,     \* output of step calculateRevenue
    pricing,     \* output of step calculatePricing
    validation,  \* output of step validateConsistency (the workflow's result)
    error,       \* message of the error that failed the run, "" when none
    call         \* the agent's last direct tool invocation: tool, input, output

vars == << pc, inputData, normalized, diy, revenue, pricing, validation, error, call >>

workflowVars == << pc, inputData, normalized, diy, revenue, pricing, validation, error >>

(***************************************************************************)
(* Bounds of the model.                                                    *)
(***************************************************************************)
\* phrases in a roadmap text
MaxPhrases == 3

\* entries in a compliance list handed to the cost estimator
MaxComplianceLen == 2

\* entries in an enterprise-feature list handed to the cost estimator
MaxEnterpriseLen == 1

\* backend hours handed to the cost estimator: 0, 1 and 85, 170, ... 85 * MaxHoursUnits
MaxHoursUnits == 3

\* total project hours the timeline is estimated for, in tens
MaxTotalHoursTens == 300

\* sections of an agent response that are missing or incomplete
MaxAltered == 2

\* calculation_update events an emitter holds
MaxProgressEvents == 2

\* development requests handed to the earlier cost calculator
MaxRequests == 2

\* DIY costs handed to the pricing tool: 2500, 5000, ... 2500 * MaxDiyCostUnits
MaxDiyCostUnits == 120

\* values handed to the consistency checker: DIY costs 20300 * 1..MaxCheckerCosts,
\* prices 1000 * 0..MaxCheckerPrices
MaxCheckerCosts == 6

MaxCheckerPrices == 60

(***************************************************************************)
(* Arithmetic.                                                             *)
(***************************************************************************)
\* Math.round(num/den) for den > 0: the nearest integer, a tie going up (also
\* for negative values: Math.round(-2.5) is -2).
MathRound(num, den) == (2 * num + den) \div (2 * den)

\* Math.round(x * p / d) for x >= 0, split so that no intermediate product
\* leaves the 32-bit range: x = q*d + r gives x*p/d = q*p + r*p/d.
ScaledRound(x, p, d) == (x \div d) * p + MathRound((x % d) * p, d)

\* Math.ceil(num/den) for num >= 0, den > 0.
MathCeil(num, den) == (num + den - 1) \div den

MathMax(S) == CHOOSE x \in S : \A y \in S : y <= x

RECURSIVE SumSeq(_)
SumSeq(s) == IF s = << >> THEN 0 ELSE Head(s) + SumSeq(Tail(s))

\* Array.prototype.map
MapSeq(s, F(_)) == [i \in 1..Len(s) |-> F(s[i])]

\* The sets of at most n elements of S (lists whose order no tool reads).
SubsetsUpTo(S, n) == {T \in SUBSET S : Cardinality(T) <= n}

Complexities == {"simple", "medium", "complex", "enterprise", "platform"}

\* A record that stands for "no value yet".
NoValue == [none |-> TRUE]

(***************************************************************************)
(* Strings.  Substrings[s] holds every keyword of the tools' tables that   *)
(* the string s includes (String.prototype.includes), for the lowercased   *)
(* phrases of the model and for the enterprise-feature keywords the cost   *)
(* estimator tests.                                                        *)
(***************************************************************************)
Phrases ==
    {"basic MVP", "authentication", "dashboard", "platform",
     "SOC2 compliance", "ISO 27001", "multi-tenant", "AI-powered analytics",
     "3 phases", "12 milestones", "enterprise platform", "large organization",
     "machine learning", "kubernetes", "encryption", "mobile app",
     "online store", "standard reporting", "role based access"}

toLowerCase ==
    ("basic MVP" :> "basic mvp") @@
    ("authentication" :> "authentication") @@
    ("dashboard" :> "dashboard") @@
    ("platform" :> "platform") @@
    ("SOC2 compliance" :> "soc2 compliance") @@
    ("ISO 27001" :> "iso 27001") @@
    ("multi-tenant" :> "multi-tenant") @@
    ("AI-powered analytics" :> "ai-powered analytics") @@
    ("3 phases" :> "3 phases") @@
    ("12 milestones" :> "12 milestones") @@
    ("enterprise platform" :> "enterprise platform") @@
    ("large organization" :> "large organization") @@
    ("machine learning" :> "machine learning") @@
    ("kubernetes" :> "kubernetes") @@
    ("encryption" :> "encryption") @@
    ("mobile app" :> "mobile app") @@
    ("online store" :> "online store") @@
    ("standard reporting" :> "standard reporting") @@
    ("role based access" :> "role based access")

Substrings ==
    ("basic mvp" :>
        {"basic", "mvp"}) @@
    ("authentication" :>
        {"authentication"}) @@
    ("dashboard" :>
        {"dashboard"}) @@
    ("platform" :>
        {"platform"}) @@
    ("soc2 compliance" :>
        {"compliance", "soc2"}) @@
    ("iso 27001" :>
        {"iso 27001"}) @@
    ("multi-tenant" :>
        {"multi-tenant", "tenant"}) @@
    ("ai-powered analytics" :>
        {"analytics", "ai", "ai-powered"}) @@
    ("3 phases" :>
        {"phase", "phases"}) @@
    ("12 milestones" :>
        {"milestone"}) @@
    ("enterprise platform" :>
        {"enterprise", "platform", "enterprise platform"}) @@
    ("large organization" :>
        {"large organization"}) @@
    ("machine learning" :>
        {"machine learning"}) @@
    ("kubernetes" :>
        {"kubernetes"}) @@
    ("encryption" :>
        {"encryption"}) @@
    ("mobile app" :>
        {"mobile app", "mobile", "app"}) @@
    ("online store" :>
        {"store"}) @@
    ("standard reporting" :>
        {"reporting", "standard"}) @@
    ("role based access" :>
        {"role based access"}) @@
    ("ai-powered" :>
        {"ai", "ai-powered"}) @@
    ("artificial intelligence" :>
        {"artificial intelligence"}) @@
    ("scenario engine" :>
        {"scenario engine", "scenario"}) @@
    ("real-time analytics" :>
        {"analytics", "real-time", "real-time analytics"}) @@
    ("role-based access" :>
        {"role-based access"}) @@
    ("audit logging" :>
        {"audit logging", "logging", "audit"}) @@
    ("disaster recovery" :>
        {"disaster recovery"}) @@
    ("high availability" :>
        {"ai", "high availability"}) @@
    ("load balancing" :>
        {"load balancing"}) @@
    ("auto-scaling" :>
        {"auto-scaling"}) @@
    ("microservices" :>
        {"microservices"}) @@
    ("containerized" :>
        {"ai", "containerized"}) @@
    ("docker" :>
        {"docker"}) @@
    ("orchestration" :>
        {"orchestration"}) @@
    ("api gateway" :>
        {"api", "api gateway"}) @@
    ("service mesh" :>
        {"service mesh"}) @@
    ("monitoring" :>
        {"monitoring"}) @@
    ("observability" :>
        {"observability"}) @@
    ("logging" :>
        {"logging"}) @@
    ("security scanning" :>
        {"security", "security scanning"}) @@
    ("vulnerability assessment" :>
        {"vulnerability assessment"}) @@
    ("penetration testing" :>
        {"penetration testing"})

phaseMatches ==
    ("basic mvp" :> {}) @@
    ("authentication" :> {}) @@
    ("dashboard" :> {}) @@
    ("platform" :> {}) @@
    ("soc2 compliance" :> {}) @@
    ("iso 27001" :> {}) @@
    ("multi-tenant" :> {}) @@
    ("ai-powered analytics" :> {}) @@
    ("3 phases" :> {3}) @@
    ("12 milestones" :> {12}) @@
    ("enterprise platform" :> {}) @@
    ("large organization" :> {}) @@
    ("machine learning" :> {}) @@
    ("kubernetes" :> {}) @@
    ("encryption" :> {}) @@
    ("mobile app" :> {}) @@
    ("online store" :> {}) @@
    ("standard reporting" :> {}) @@
    ("role based access" :> {})

\* s.includes(keyword)
StrIncludes(s, keyword) == keyword \in Substrings[s]

\* roadmapText.toLowerCase(): the lowercased phrases of the text
TextLower(roadmapText) == {toLowerCase[p] : p \in roadmapText}

\* textLower.includes(keyword)
TextIncludes(textLower, keyword) == \E s \in textLower : StrIncludes(s, keyword)

(***************************************************************************)
(* Input normalization tool.                                               *)
(***************************************************************************)
featureKeywords ==
    << "authentication", "user management", "dashboard", "reporting",
    "payments", "notifications", "api", "database",
    "search", "analytics", "integration", "mobile app",
    "web app", "admin panel", "messaging", "file upload",
    "real-time", "automation", "machine learning", "ai",
    "blockchain", "simulation", "scenario engine", "benchmarking",
    "war room", "crisis management", "incident response", "certification system",
    "audit logging", "compliance", "multi-tenant", "sso",
    "single sign-on", "role-based access", "rbac", "microservices",
    "containerized", "orchestration", "load balancing", "disaster recovery",
    "backup", "replication", "monitoring", "alerting",
    "encryption", "security", "penetration testing", "vulnerability assessment" >>

complexityIndicators ==
    [ simple |-> {"basic", "simple", "mvp", "prototype", "minimal"},
      medium |-> {"standard", "typical", "moderate", "extended"},
      complex |-> {"enterprise", "advanced", "sophisticated", "complex", "ai", "machine learning"},
      enterprise |-> {"enterprise-grade", "mission-critical", "large-scale", "global", "multi-region", "compliance", "soc2", "gdpr", "hipaa"},
      platform |-> {"platform", "ecosystem", "multi-phase", "phased", "architecture", "infrastructure", "framework", "sdk", "api gateway"} ]

businessModelKeywords ==
    [ saas |-> {"subscription", "saas", "monthly", "recurring", "tenant"},
      ecommerce |-> {"store", "shop", "cart", "payment", "product", "marketplace"},
      b2b |-> {"enterprise", "business", "b2b", "corporate", "client"},
      mobile |-> {"mobile", "app", "ios", "android", "smartphone"},
      enterprise |-> {"enterprise software", "enterprise platform", "enterprise solution", "large organization", "multi-location"} ]

phaseIndicators == {"phase", "phases", "stage", "stages", "milestone", "roadmap", "timeline"}

complianceKeywords ==
    [ SOC2 |-> {"soc2", "soc 2", "service organization control"},
      GDPR |-> {"gdpr", "general data protection regulation", "european privacy"},
      HIPAA |-> {"hipaa", "health insurance portability", "healthcare privacy"},
      PCI |-> {"pci", "payment card industry", "credit card"},
      ISO27001 |-> {"iso27001", "iso 27001", "information security management"},
      FedRAMP |-> {"fedramp", "federal risk", "government cloud"},
      CCPA |-> {"ccpa", "california consumer privacy act"} ]

enterpriseKeywords ==
    << "ai-powered", "machine learning", "artificial intelligence", "scenario engine",
    "real-time analytics", "multi-tenant", "role-based access", "audit logging",
    "disaster recovery", "high availability", "load balancing", "auto-scaling",
    "microservices", "containerized", "kubernetes", "docker",
    "orchestration", "api gateway", "service mesh", "monitoring",
    "observability", "logging", "encryption", "security scanning",
    "vulnerability assessment", "penetration testing" >>

differentiatorKeywords ==
    << "ai-powered", "real-time", "automated", "secure",
    "scalable", "user-friendly", "mobile-first", "cloud-based",
    "cloud-native", "integration", "analytics", "personalized",
    "instant", "collaborative", "multi-tenant", "enterprise-grade",
    "mission-critical", "high-availability", "disaster-recovery" >>

replaceHyphen ==
    ("ai-powered" :> "ai powered") @@
    ("machine learning" :> "machine learning") @@
    ("artificial intelligence" :> "artificial intelligence") @@
    ("scenario engine" :> "scenario engine") @@
    ("real-time analytics" :> "real time analytics") @@
    ("multi-tenant" :> "multi tenant") @@
    ("role-based access" :> "role based access") @@
    ("audit logging" :> "audit logging") @@
    ("disaster recovery" :> "disaster recovery") @@
    ("high availability" :> "high availability") @@
    ("load balancing" :> "load balancing") @@
    ("auto-scaling" :> "auto scaling") @@
    ("microservices" :> "microservices") @@
    ("containerized" :> "containerized") @@
    ("kubernetes" :> "kubernetes") @@
    ("docker" :> "docker") @@
    ("orchestration" :> "orchestration") @@
    ("api gateway" :> "api gateway") @@
    ("service mesh" :> "service mesh") @@
    ("monitoring" :> "monitoring") @@
    ("observability" :> "observability") @@
    ("logging" :> "logging") @@
    ("encryption" :> "encryption") @@
    ("security scanning" :> "security scanning") @@
    ("vulnerability assessment" :> "vulnerability assessment") @@
    ("penetration testing" :> "penetration testing") @@
    ("real-time" :> "real time") @@
    ("automated" :> "automated") @@
    ("secure" :> "secure") @@
    ("scalable" :> "scalable") @@
    ("user-friendly" :> "user friendly") @@
    ("mobile-first" :> "mobile first") @@
    ("cloud-based" :> "cloud based") @@
    ("cloud-native" :> "cloud native") @@
    ("integration" :> "integration") @@
    ("analytics" :> "analytics") @@
    ("personalized" :> "personalized") @@
    ("instant" :> "instant") @@
    ("collaborative" :> "collaborative") @@
    ("enterprise-grade" :> "enterprise grade") @@
    ("mission-critical" :> "mission critical") @@
    ("high-availability" :> "high availability") @@
    ("disaster-recovery" :> "disaster recovery")

\* Object.entries(businessModelKeywords) and Object.entries(complianceKeywords)
\* iterate in insertion order.
businessModelOrder == << "saas", "ecommerce", "b2b", "mobile", "enterprise" >>

complianceOrder == << "SOC2", "GDPR", "HIPAA", "PCI", "ISO27001", "FedRAMP", "CCPA" >>

\* A table whose enterprise base falls below the complex one: the ladder the
\* code does not have.
baseHoursDipping ==
    [ simple |-> 80, medium |-> 160, complex |-> 320, enterprise |-> 300, platform |-> 800 ]

baseHours ==
    [ simple |-> 80, medium |-> 160, complex |-> 320, enterprise |-> 500, platform |-> 800 ]

normalizedFeatures(textLower) ==
    SelectSeq(featureKeywords, LAMBDA feature : TextIncludes(textLower, feature))

\* A tier assessment that tests the five tiers from the simplest up.
backendComplexityAscending(textLower) ==
    IF \E indicator \in complexityIndicators.simple : TextIncludes(textLower, indicator)
    THEN "simple"
    ELSE IF \E indicator \in complexityIndicators.medium : TextIncludes(textLower, indicator)
    THEN "medium"
    ELSE IF \E indicator \in complexityIndicators.complex : TextIncludes(textLower, indicator)
    THEN "complex"
    ELSE IF \E indicator \in complexityIndicators.enterprise : TextIncludes(textLower, indicator)
    THEN "enterprise"
    ELSE IF \E indicator \in complexityIndicators.platform : TextIncludes(textLower, indicator)
    THEN "platform"
    ELSE "medium"

\* A tier assessment that matches no indicator and always leaves the default.
backendComplexityDefault(textLower) == "medium"

\* The platform indicators are tested first, then enterprise, complex and
\* simple; the medium indicators are never tested.
backendComplexity(textLower) ==
    IF \E indicator \in complexityIndicators.platform : TextIncludes(textLower, indicator)
    THEN "platform"
    ELSE IF \E indicator \in complexityIndicators.enterprise : TextIncludes(textLower, indicator)
    THEN "enterprise"
    ELSE IF \E indicator \in complexityIndicators.complex : TextIncludes(textLower, indicator)
    THEN "complex"
    ELSE IF \E indicator \in complexityIndicators.simple : TextIncludes(textLower, indicator)
    THEN "simple"
    ELSE "medium"

\* The estimate without its last step, the rounding to a multiple of 10.
estimatedBackendHoursUnrounded(complexity, featureCount) ==
    MathRound(baseHours[complexity] * (IF featureCount > 10 THEN featureCount ELSE 10), 10)

\* featureMultiplier = Math.max(1, featureCount * 0.1), carried in tenths;
\* rawHours = baseHours * featureMultiplier; Math.round(rawHours / 10) * 10.
\* (No value of this table is a .5 tie, and the doubles agree with the exact
\* value for every feature count 0..48 of every tier.)
estimatedBackendHours(complexity, featureCount) ==
    LET featureMultiplierTenths == IF featureCount > 10 THEN featureCount ELSE 10
    IN  MathRound(baseHours[complexity] * featureMultiplierTenths, 100) * 10

\* An identification that lets the last matching model of the table win.
businessModelLastMatch(textLower) ==
    LET matching == {i \in 1..Len(businessModelOrder) :
                        \E keyword \in businessModelKeywords[businessModelOrder[i]] :
                            TextIncludes(textLower, keyword)}
    IN  IF matching = {} THEN "saas"
        ELSE businessModelOrder[CHOOSE i \in matching : \A j \in matching : j <= i]

\* The first model, in table order, one of whose keywords the text includes;
\* "saas" when none does.
businessModel(textLower) ==
    LET matching == {i \in 1..Len(businessModelOrder) :
                        \E keyword \in businessModelKeywords[businessModelOrder[i]] :
                            TextIncludes(textLower, keyword)}
    IN  IF matching = {} THEN "saas"
        ELSE businessModelOrder[CHOOSE i \in matching : \A j \in matching : i <= j]

isMultiPhase(textLower) ==
    \E indicator \in phaseIndicators : TextIncludes(textLower, indicator)

\* textLower.match(/(\d+)\s*(?:phase|stage|milestone)/g), each parsed to its number
phaseNumbers(textLower) == UNION {phaseMatches[s] : s \in textLower}

phaseCount(textLower) ==
    IF phaseNumbers(textLower) # {} THEN MathMax(phaseNumbers(textLower))
    ELSE IF isMultiPhase(textLower)
    THEN (IF backendComplexity(textLower) = "platform" THEN 4
          ELSE IF backendComplexity(textLower) = "enterprise" THEN 3 ELSE 2)
    ELSE 1

complianceRequirements(textLower) ==
    SelectSeq(complianceOrder,
              LAMBDA compliance : \E keyword \in complianceKeywords[compliance] :
                                      TextIncludes(textLower, keyword))

\* The text is searched for the keyword with its first hyphen replaced by a
\* space (feature.replace('-', ' ')).
enterpriseFeatures(textLower) ==
    SelectSeq(enterpriseKeywords,
              LAMBDA feature : TextIncludes(textLower, replaceHyphen[feature]))

keyDifferentiators(textLower) ==
    SelectSeq(differentiatorKeywords,
              LAMBDA diff : TextIncludes(textLower, replaceHyphen[diff]))

\* industry || (...): an absent industry is the empty string
marketCategory(textLower, industry) ==
    IF industry # "" THEN industry
    ELSE IF TextIncludes(textLower, "cyber") \/ TextIncludes(textLower, "security")
    THEN "Cybersecurity"
    ELSE IF TextIncludes(textLower, "health") \/ TextIncludes(textLower, "medical")
    THEN "Healthcare"
    ELSE IF TextIncludes(textLower, "finance") \/ TextIncludes(textLower, "bank")
    THEN "Financial Services"
    ELSE "Technology"

inputNormalizationTool(context) ==
    LET textLower == TextLower(context.roadmapText)
        features  == normalizedFeatures(textLower)
        tier      == backendComplexity(textLower)
    IN  [ normalizedFeatures     |-> features,
          backendComplexity      |-> tier,
          estimatedBackendHours  |-> estimatedBackendHours(tier, Len(features)),
          businessModel          |-> businessModel(textLower),
          marketCategory         |-> marketCategory(textLower, context.industry),
          keyDifferentiators     |-> keyDifferentiators(textLower),
          isMultiPhase           |-> isMultiPhase(textLower),
          phaseCount             |-> phaseCount(textLower),
          complianceRequirements |-> complianceRequirements(textLower),
          enterpriseFeatures     |-> enterpriseFeatures(textLower) ]

(***************************************************************************)
(* DIY cost calculator tool.                                               *)
(***************************************************************************)
stageNames ==
    << "Planning", "Design", "HTML/Markup", "Frontend Development",
       "Backend Development", "QA/Testing", "Project Management" >>

\* The rates of baseHourlyRates the tool falls back to.
baseHourlyRates ==
    [ architect |-> 85, uiUxDesigner |-> 36, juniorDeveloper |-> 32, midDeveloper |-> 45,
      seniorDeveloper |-> 65, qaEngineer |-> 42, projectManager |-> 38, mlEngineer |-> 80,
      securitySpecialist |-> 50, devopsEngineer |-> 58, cloudEngineer |-> 62 ]

\* customStagePercentages?.planning ?? 8, ...: the caller's record when one
\* is given, the defaults otherwise.
stagePercentages(customStagePercentages) ==
    LET custom == customStagePercentages
        given  == custom # NoValue
    IN  ("Planning"             :> (IF given THEN custom.planning ELSE 8)) @@
        ("Design"               :> (IF given THEN custom.design ELSE 8)) @@
        ("HTML/Markup"          :> (IF given THEN custom.htmlMarkup ELSE 11)) @@
        ("Frontend Development" :> (IF given THEN custom.frontend ELSE 26)) @@
        ("Backend Development"  :> (IF given THEN custom.backend ELSE 32)) @@
        ("QA/Testing"           :> (IF given THEN custom.qa ELSE 5)) @@
        ("Project Management"   :> (IF given THEN custom.management ELSE 10))

hourlyRates(customHourlyRates) ==
    LET custom == customHourlyRates
        given  == custom # NoValue
    IN  ("Planning"                :> (IF given THEN custom.planning ELSE baseHourlyRates.architect)) @@
        ("Design"                  :> (IF given THEN custom.design ELSE baseHourlyRates.uiUxDesigner)) @@
        ("HTML/Markup"             :> (IF given THEN custom.htmlMarkup ELSE baseHourlyRates.juniorDeveloper)) @@
        ("Frontend Development"    :> (IF given THEN custom.frontend ELSE baseHourlyRates.midDeveloper)) @@
        ("Backend Development"     :> (IF given THEN custom.backend ELSE baseHourlyRates.seniorDeveloper)) @@
        ("QA/Testing"              :> (IF given THEN custom.qa ELSE baseHourlyRates.qaEngineer)) @@
        ("Project Management"      :> (IF given THEN custom.management ELSE baseHourlyRates.projectManager)) @@
        ("AI/ML Engineering"       :> (IF given THEN custom.aiMlEngineer ELSE baseHourlyRates.mlEngineer)) @@
        ("Security Specialist"     :> (IF given THEN custom.securitySpecialist ELSE baseHourlyRates.securitySpecialist)) @@
        ("Enterprise Architecture" :> (IF given THEN custom.enterpriseArchitect ELSE baseHourlyRates.architect)) @@
        ("Compliance Expert"       :> (IF given THEN custom.complianceExpert ELSE 95)) @@
        ("DevOps Engineering"      :> (IF given THEN custom.devOpsEngineer ELSE baseHourlyRates.devopsEngineer)) @@
        ("Cloud Architecture"      :> (IF given THEN custom.cloudArchitect ELSE baseHourlyRates.cloudEngineer))

\* Math.round((backendHours / 32) * 100 / 10) * 10.  The divisor is the
\* literal 32 whatever stagePercentages holds.  (backendHours / 32 is exact
\* in binary, so a tie is a tie of the doubles too.)
totalProjectHours(backendHours) == MathRound(backendHours * 100, 320) * 10

\* One record of stageBreakdown: hours is Math.round(percentage% of the total).
stageRecord(stage, percentage, total, rates) ==
    LET hours == MathRound(percentage * total, 100)
    IN  [ stage |-> stage, percentage |-> percentage, hours |-> hours,
          hourlyRate |-> rates[stage], cost |-> hours * rates[stage] ]

baseStages(total, percentages, rates) ==
    MapSeq(stageNames, LAMBDA stage : stageRecord(stage, percentages[stage], total, rates))

\* enterpriseFeatures.some(f => f.includes(a) || f.includes(b) || ...)
someFeatureIncludes(features, probes) ==
    \E i \in 1..Len(features) : \E probe \in probes : StrIncludes(features[i], probe)

\* Specialist stages appended on every tier.
enterpriseRolesAnyTier(total, priority, features, compliance, rates) ==
    (IF someFeatureIncludes(features, {"ai", "machine learning", "scenario"})
     THEN << stageRecord("AI/ML Engineering", 15, total, rates) >> ELSE << >>)
    \o
    (IF someFeatureIncludes(features, {"security", "encryption", "audit"})
     THEN << stageRecord("Security Specialist", 12, total, rates) >> ELSE << >>)
    \o
    (IF priority = "platform" \/ someFeatureIncludes(features, {"microservices", "architecture"})
     THEN << stageRecord("Enterprise Architecture", 8, total, rates) >> ELSE << >>)
    \o
    (IF Len(compliance) > 0
     THEN << stageRecord("Compliance Expert", 10, total, rates) >> ELSE << >>)
    \o
    (IF someFeatureIncludes(features, {"cloud", "containerized", "kubernetes"})
     THEN << stageRecord("DevOps Engineering", 10, total, rates) >> ELSE << >>)

\* The specialist stages, appended only for the enterprise and platform tiers.
enterpriseRoles(total, priority, features, compliance, rates) ==
    IF priority \notin {"enterprise", "platform"} THEN << >>
    ELSE
      (IF someFeatureIncludes(features, {"ai", "machine learning", "scenario"})
       THEN << stageRecord("AI/ML Engineering", 15, total, rates) >> ELSE << >>)
      \o
      (IF someFeatureIncludes(features, {"security", "encryption", "audit"})
       THEN << stageRecord("Security Specialist", 12, total, rates) >> ELSE << >>)
      \o
      (IF priority = "platform" \/ someFeatureIncludes(features, {"microservices", "architecture"})
       THEN << stageRecord("Enterprise Architecture", 8, total, rates) >> ELSE << >>)
      \o
      (IF Len(compliance) > 0
       THEN << stageRecord("Compliance Expert", 10, total, rates) >> ELSE << >>)
      \o
      (IF someFeatureIncludes(features, {"cloud", "containerized", "kubernetes"})
       THEN << stageRecord("DevOps Engineering", 10, total, rates) >> ELSE << >>)

stageBreakdown(total, priority, features, compliance, percentages, rates) ==
    baseStages(total, percentages, rates)
        \o enterpriseRoles(total, priority, features, compliance, rates)

\* stage.replace(' Development', ' Dev')
roleName(stage) ==
    IF stage = "Frontend Development" THEN "Frontend Dev"
    ELSE IF stage = "Backend Development" THEN "Backend Dev"
    ELSE stage

teamRequirements(stages) ==
    MapSeq(stages, LAMBDA st :
        [ role         |-> roleName(st.stage),
          hoursPerWeek |-> IF st.hours < 40 THEN st.hours ELSE 40,
          weeks        |-> MathCeil(st.hours, 40),
          weeklyCost   |-> (IF st.hours < 40 THEN st.hours ELSE 40) * st.hourlyRate,
          totalCost    |-> st.hours * st.hourlyRate ])

totalSalaryCosts(stages) == SumSeq(MapSeq(stages, LAMBDA st : st.cost))

\* Math.ceil(totalProjectHours / (40 * (isMultiPhase ? 20 : 16)))
\* A team size rounded down instead of up.
teamSizeFloored(total, multiPhase) == total \div (40 * (IF multiPhase THEN 20 ELSE 16))

teamSize(total, multiPhase) == MathCeil(total, 40 * (IF multiPhase THEN 20 ELSE 16))

SeqIncludes(list, x) == \E i \in 1..Len(list) : list[i] = x

\* complianceMultiplier in hundredths: 1.0, plus a delta for each of the five
\* standards the estimator knows.
complianceMultiplier(compliance) ==
    100 + (IF SeqIncludes(compliance, "SOC2") THEN 15 ELSE 0)
        + (IF SeqIncludes(compliance, "GDPR") THEN 10 ELSE 0)
        + (IF SeqIncludes(compliance, "HIPAA") THEN 20 ELSE 0)
        + (IF SeqIncludes(compliance, "PCI") THEN 12 ELSE 0)
        + (IF SeqIncludes(compliance, "FedRAMP") THEN 25 ELSE 0)

hiddenCosts(salary, team, priority, compliance) ==
    LET multiplier == complianceMultiplier(compliance)
    IN  [ recruitmentFees      |-> ScaledRound(salary, 20 * multiplier, 10000),
          benefitsOverhead     |-> ScaledRound(salary, 35 * multiplier, 10000),
          equipmentCosts       |-> team * (IF priority \in {"enterprise", "platform"}
                                           THEN 6000 ELSE 4500),
          onboardingCosts      |-> ScaledRound(salary, 25 * multiplier, 10000),
          complianceAuditCosts |-> IF Len(compliance) > 0
                                   THEN ScaledRound(salary, 8, 100) ELSE 0 ]

\* A sum over the four fields the agent's copy of the tool declares in its
\* output schema (salesman-agent.ts), which leaves the audit costs out.
totalHiddenCostsDeclaredFields(hidden) ==
    hidden.recruitmentFees + hidden.benefitsOverhead + hidden.equipmentCosts
        + hidden.onboardingCosts

\* Object.values(hiddenCosts).reduce((sum, cost) => sum + cost, 0)
totalHiddenCosts(hidden) ==
    hidden.recruitmentFees + hidden.benefitsOverhead + hidden.equipmentCosts
        + hidden.onboardingCosts + hidden.complianceAuditCosts

totalDIYCost(salary, hidden) == salary + totalHiddenCosts(hidden)

\* `${Math.round(timelineWeeks)} weeks with ${teamSize} team members...`:
\* baseWeeks = Math.ceil(total / (teamSize * 40)) is NaN (0/0) when the team
\* size is 0, and so is the number the text shows; multi-phase inflates it
\* by 1.3.
\* A timeline that applies the 1.3 inflation to every project.
timelineInflated(total, team, multiPhase) ==
    LET baseWeeks == MathCeil(total, team * 40)
    IN  IF team = 0
        THEN [ isNaN |-> TRUE, weeks |-> 0, teamSize |-> team, multiPhase |-> multiPhase ]
        ELSE [ isNaN |-> FALSE, weeks |-> MathRound(baseWeeks * 13, 10),
               teamSize |-> team, multiPhase |-> multiPhase ]

timeline(total, team, multiPhase) ==
    LET baseWeeks == MathCeil(total, team * 40)
    IN  IF team = 0
        THEN [ isNaN |-> TRUE, weeks |-> 0, teamSize |-> team, multiPhase |-> multiPhase ]
        ELSE [ isNaN |-> FALSE,
               weeks |-> IF multiPhase THEN MathRound(baseWeeks * 13, 10) ELSE baseWeeks,
               teamSize |-> team, multiPhase |-> multiPhase ]

diyCalculatorTool(context) ==
    LET percentages == stagePercentages(context.stagePercentages)
        rates       == hourlyRates(context.hourlyRates)
        total       == totalProjectHours(context.backendHours)
        stages      == stageBreakdown(total, context.priority, context.enterpriseFeatures,
                                      context.complianceRequirements, percentages, rates)
        salary      == totalSalaryCosts(stages)
        team        == teamSize(total, context.isMultiPhase)
        hidden      == hiddenCosts(salary, team, context.priority,
                                   context.complianceRequirements)
    IN  [ totalProjectHours |-> total,
          stageBreakdown    |-> stages,
          teamRequirements  |-> teamRequirements(stages),
          hiddenCosts       |-> hidden,
          totalDIYCost      |-> totalDIYCost(salary, hidden),
          timeline          |-> timeline(total, team, context.isMultiPhase) ]

(***************************************************************************)
(* Revenue projections tool.  Rates and factors are carried in hundredths: *)
(* a churn rate of 0.10 is 10, a revenue per user of 3.50 is 350, the      *)
(* penetration factor 0.7 is 70.                                           *)
(***************************************************************************)
defaultMarketParameters ==
    [ saasArpu |-> 150, saasAcquisitionRate |-> 25, saasChurnRate |-> 10,
      ecommerceTransactionVolume |-> 500, ecommerceAOV |-> 180, ecommerceMargin |-> 25,
      b2bDealSize |-> 12000, b2bDealsPerMonth |-> 3, b2bWinRate |-> 25,
      mobileMAU |-> 15000, mobileRevenuePerUser |-> 350,
      enterpriseDealSize |-> 75000, enterpriseDealsPerQuarter |-> 2,
      enterpriseWinRate |-> 15, enterpriseSalesCycle |-> 9,
      marketPenetrationFactor |-> 70 ]

\* Parameters that depend on more than the input: once a run has been
\* recorded, the SaaS revenue per user is another.
marketParamsDrifting(marketParameters) ==
    IF marketParameters # NoValue THEN marketParameters
    ELSE IF call.tool = "none" THEN defaultMarketParameters
    ELSE [ defaultMarketParameters EXCEPT !.saasArpu = 151 ]

\* marketParameters?.x ?? default, for every parameter
marketParams(marketParameters) ==
    IF marketParameters = NoValue THEN defaultMarketParameters ELSE marketParameters

\* The model's formula before the penetration factor, as a fraction num/den.
\* The enterprise formula is rounded once here: Math.round(size * deals * rate / 3).
modelRevenue(model, params) ==
    CASE model = "saas" ->
           [ num |-> params.saasAcquisitionRate * params.saasArpu * (100 - params.saasChurnRate),
             den |-> 100 ]
      [] model = "ecommerce" ->
           [ num |-> params.ecommerceTransactionVolume * params.ecommerceAOV * params.ecommerceMargin,
             den |-> 100 ]
      [] model = "b2b" ->
           [ num |-> params.b2bDealSize * params.b2bDealsPerMonth * params.b2bWinRate,
             den |-> 100 ]
      [] model = "mobile" ->
           [ num |-> params.mobileMAU * params.mobileRevenuePerUser, den |-> 100 ]
      [] model = "enterprise" ->
           [ num |-> MathRound(params.enterpriseDealSize * params.enterpriseDealsPerQuarter
                                   * params.enterpriseWinRate, 300),
             den |-> 1 ]

\* Math.round(monthlyRevenuePotential * params.penetrationFactor)
monthlyRevenuePotential(model, params) ==
    LET raw == modelRevenue(model, params)
    IN  MathRound(raw.num * params.marketPenetrationFactor, raw.den * 100)

businessModelMetrics(model, params) ==
    CASE model = "saas" ->
           [ acquisitionRate |-> params.saasAcquisitionRate,
             averageRevenuePerUser |-> params.saasArpu, churnRate |-> params.saasChurnRate ]
      [] model = "ecommerce" ->
           [ transactionVolume |-> params.ecommerceTransactionVolume,
             averageOrderValue |-> params.ecommerceAOV ]
      [] model = "b2b" ->
           [ dealSize |-> params.b2bDealSize, winRate |-> params.b2bWinRate ]
      [] model = "mobile" ->
           [ averageRevenuePerUser |-> params.mobileRevenuePerUser ]
      [] model = "enterprise" ->
           [ dealSize |-> params.enterpriseDealSize, winRate |-> params.enterpriseWinRate ]

\* Delay costs whose two-week figure is cut off instead of rounded.
delayCostsTruncated(monthly) ==
    [ twoWeek |-> monthly \div 2, oneMonth |-> monthly, threeMonth |-> monthly * 3 ]

\* twoWeek is Math.round(monthly * 0.5), exact in binary: an odd monthly
\* figure rounds up.
delayCosts(monthly) ==
    [ twoWeek |-> MathRound(monthly, 2), oneMonth |-> monthly, threeMonth |-> monthly * 3 ]

revenueProjectionsTool(context) ==
    LET params  == marketParams(context.marketParameters)
        monthly == monthlyRevenuePotential(context.businessModel, params)
    IN  [ monthlyRevenuePotential |-> monthly,
          marketAnalysisBasis     |-> [ model |-> context.businessModel,
                                        geographyFocus |-> context.geographyFocus,
                                        currency |-> context.currency ],
          businessModelMetrics    |-> businessModelMetrics(context.businessModel, params),
          delayCosts              |-> delayCosts(monthly),
          firstMoverAdvantage     |-> MathRound(monthly * 180, 100),
          conservativeProjection  |-> MathRound(monthly * 65, 100) ]

(***************************************************************************)
(* OneQ pricing tool.  Multipliers are carried in hundredths.              *)
(***************************************************************************)
\* A table that prices every tier at the default 35%.
tierMultiplierDefault ==
    [ simple |-> 35, medium |-> 35, complex |-> 35, enterprise |-> 35, platform |-> 35 ]

tierMultiplier ==
    [ simple |-> 35, medium |-> 37, complex |-> 40, enterprise |-> 42, platform |-> 45 ]

\* The tier's multiplier, plus 0.02 when any compliance requirement is listed.
pricingMultiplierSteep(complexity, compliance) ==
    tierMultiplier[complexity] + (IF Len(compliance) > 0 THEN 6 ELSE 0)

pricingMultiplier(complexity, compliance) ==
    tierMultiplier[complexity] + (IF Len(compliance) > 0 THEN 2 ELSE 0)

\* Math.round(amount * percent% / 1000) * 1000
roundToThousand(amount, percent) == MathRound(amount * percent, 100000) * 1000

baseCorePrice(diyCost, complexity, compliance) ==
    roundToThousand(diyCost, pricingMultiplier(complexity, compliance))

isEnterpriseTier(complexity) == complexity \in {"enterprise", "platform"}

modularOptions(base, complexity) ==
    << [ name |-> "Core Implementation",
         description |-> IF complexity = "platform"
                         THEN "16-week phased implementation with enterprise support"
                         ELSE IF complexity = "enterprise"
                         THEN "14-week implementation with compliance support"
                         ELSE "12-week implementation with basic support",
         price |-> base ],
       [ name |-> "Extended Support",
         description |-> IF isEnterpriseTier(complexity)
                         THEN "12 months enterprise support and maintenance"
                         ELSE "6 months additional support and maintenance",
         price |-> roundToThousand(base, IF isEnterpriseTier(complexity) THEN 35 ELSE 25) ],
       [ name |-> "Expedited Delivery",
         description |-> IF complexity = "platform"
                         THEN "Rush implementation in 12 weeks instead of 16"
                         ELSE IF complexity = "enterprise"
                         THEN "Rush implementation in 10 weeks instead of 14"
                         ELSE "Rush implementation in 8 weeks instead of 12",
         price |-> roundToThousand(base, IF isEnterpriseTier(complexity) THEN 25 ELSE 20) ],
       [ name |-> "Additional Features",
         description |-> "Extra features beyond core roadmap",
         price |-> roundToThousand(base, 30) ] >>
    \o (IF isEnterpriseTier(complexity)
        THEN << [ name |-> "Compliance Certification",
                  description |-> "SOC2, GDPR, or other compliance certification assistance",
                  price |-> roundToThousand(base, 15) ] >>
        ELSE << >>)

\* modularOptions.find(opt => opt.name === name)?.price || 0
optionPrice(options, name) ==
    LET found == {i \in 1..Len(options) : options[i].name = name}
    IN  IF found = {} THEN 0
        ELSE options[CHOOSE i \in found : \A j \in found : i <= j].price

\* A total that charges the Additional Features option whether asked or not.
totalPriceWithAdditionalFeatures(base, options, expeditedDelivery, extendedSupport) ==
    base + (IF expeditedDelivery THEN optionPrice(options, "Expedited Delivery") ELSE 0)
         + (IF extendedSupport THEN optionPrice(options, "Extended Support") ELSE 0)
         + optionPrice(options, "Additional Features")

totalPrice(base, options, expeditedDelivery, extendedSupport) ==
    base + (IF expeditedDelivery THEN optionPrice(options, "Expedited Delivery") ELSE 0)
         + (IF extendedSupport THEN optionPrice(options, "Extended Support") ELSE 0)

\* The field corePrice carries totalPrice, the total with the flagged options.
\* (diyCost > 0 in every invocation of the model.)
oneqPricingTool(context) ==
    LET base    == baseCorePrice(context.diyCost, context.complexity,
                                 context.complianceRequirements)
        options == modularOptions(base, context.complexity)
        total   == totalPrice(base, options, context.expeditedDelivery,
                              context.extendedSupport)
        savings == context.diyCost - total
    IN  [ corePrice         |-> total,
          modularOptions    |-> options,
          totalSavings      |-> savings,
          savingsPercentage |-> MathRound(savings * 100, context.diyCost) ]

(***************************************************************************)
(* Consistency validation tool.                                            *)
(***************************************************************************)
expectedMultipliers ==
    [ simple |-> 35, medium |-> 37, complex |-> 40, enterprise |-> 42, platform |-> 45 ]

Abs(x) == IF x < 0 THEN -x ELSE x

\* The comparison at a deviation of exactly 0.05, as double arithmetic
\* decides it.  The quotient is the double nearest to the multiplier plus or
\* minus 0.05 whatever the two amounts are, and its difference from the double
\* of the multiplier comes out as 0.04999999999999999 (within) or as
\* 0.050000000000000044 (not within): low is the price 5 points below the
\* expected share, high the price 5 points above.
boundaryWithinRange ==
    [ simple     |-> [ low |-> TRUE,  high |-> FALSE ],
      medium     |-> [ low |-> TRUE,  high |-> TRUE ],
      complex    |-> [ low |-> FALSE, high |-> TRUE ],
      enterprise |-> [ low |-> TRUE,  high |-> TRUE ],
      platform   |-> [ low |-> TRUE,  high |-> TRUE ] ]

\* Math.abs(oneQPrice / diyCost - expectedMultiplier) < 0.05, multiplied
\* through by 100 * diyCost.  Away from a deviation of exactly 0.05 the double
\* difference and the exact one fall on the same side of 0.05.  diyCost 0
\* makes the quotient NaN or Infinity, and the comparison false.
isWithinRange(complexity, diyCost, oneQPrice) ==
    LET deviation == 100 * oneQPrice - expectedMultipliers[complexity] * diyCost
    IN  IF diyCost > 0 /\ deviation = 5 * diyCost
            THEN boundaryWithinRange[complexity].high
        ELSE IF diyCost > 0 /\ deviation = -(5 * diyCost)
            THEN boundaryWithinRange[complexity].low
        ELSE Abs(deviation) < 5 * diyCost

\* The checker DEBUG.md shows as the one not to write: it rounds the DIY cost
\* to the nearest 1000 on the way through.
roundingValidationTool(context) ==
    LET results == context.calculationResults
        within  == isWithinRange(context.normalizedInputs.complexity,
                                 results.diyCost, results.oneQPrice)
        rounded == MathRound(results.diyCost, 1000) * 1000
    IN  [ isConsistent     |-> within,
          consistencyScore |-> IF within THEN 95 ELSE 85,
          finalPricing     |->
              [ diyCost        |-> rounded,
                oneQPrice      |-> results.oneQPrice,
                savingsPercent |-> MathRound((results.diyCost - results.oneQPrice) * 100,
                                             results.diyCost) ] ]

\* A checker that repairs what it rejects: a price out of range leaves as
\* the tier's expected share of the DIY cost.
adjustingValidationTool(context) ==
    LET results == context.calculationResults
        complexity == context.normalizedInputs.complexity
        within  == isWithinRange(complexity, results.diyCost, results.oneQPrice)
        price   == IF within THEN results.oneQPrice
                   ELSE roundToThousand(results.diyCost, expectedMultipliers[complexity])
    IN  [ isConsistent     |-> within,
          consistencyScore |-> IF within THEN 95 ELSE 85,
          finalPricing     |->
              [ diyCost        |-> results.diyCost,
                oneQPrice      |-> price,
                savingsPercent |-> MathRound((results.diyCost - price) * 100,
                                             results.diyCost) ] ]

consistencyValidationTool(context) ==
    LET results == context.calculationResults
        within  == isWithinRange(context.normalizedInputs.complexity,
                                 results.diyCost, results.oneQPrice)
    IN  [ isConsistent     |-> within,
          consistencyScore |-> IF within THEN 95 ELSE 85,
          finalPricing     |->
              [ diyCost        |-> results.diyCost,
                oneQPrice      |-> results.oneQPrice,
                savingsPercent |-> MathRound((results.diyCost - results.oneQPrice) * 100,
                                             results.diyCost) ] ]

(***************************************************************************)
(* The workflow directCalculationWorkflow: five steps in a fixed order,    *)
(* each fed from the outputs of the steps before it.                       *)
(***************************************************************************)
RoadmapTexts == SubsetsUpTo(Phrases, MaxPhrases)

Industries == {"", "fintech"}

NoCall == [ tool |-> "none" ]

Init ==
    /\ pc = "idle"
    /\ inputData = NoValue
    /\ normalized = NoValue
    /\ diy = NoValue
    /\ revenue = NoValue
    /\ pricing = NoValue
    /\ validation = NoValue
    /\ error = ""
    /\ call = NoCall

\* A run is started on an input record; the empty set is the empty text.
StartRun ==
    /\ pc = "idle"
    /\ call = NoCall
    /\ \E text \in RoadmapTexts, industry \in Industries :
           inputData' = [ roadmapText |-> text, industry |-> industry ]
    /\ pc' = "normalizeInput"
    /\ UNCHANGED << normalized, diy, revenue, pricing, validation, error, call >>

\* A first step without the test for a missing text.
normalizeInputStepUnguarded ==
    /\ pc = "normalizeInput"
    /\ normalized' = inputNormalizationTool(inputData)
    /\ pc' = "calculateDIY"
    /\ UNCHANGED << inputData, diy, revenue, pricing, validation, error, call >>

normalizeInputStep ==
    /\ pc = "normalizeInput"
    /\ IF inputData.roadmapText = {}
       THEN /\ error' = "Roadmap text is required"
            /\ pc' = "failed"
            /\ UNCHANGED normalized
       ELSE /\ normalized' = inputNormalizationTool(inputData)
            /\ pc' = "calculateDIY"
            /\ UNCHANGED error
    /\ UNCHANGED << inputData, diy, revenue, pricing, validation, call >>

\* A cost step that also projects the revenue and hands over to the pricing
\* step, so that the revenue step never starts.
calculateDIYStepWithRevenue ==
    /\ pc = "calculateDIY"
    /\ diy' = diyCalculatorTool(
                  [ backendHours           |-> normalized.estimatedBackendHours,
                    features               |-> normalized.normalizedFeatures,
                    priority               |-> normalized.backendComplexity,
                    complianceRequirements |-> normalized.complianceRequirements,
                    enterpriseFeatures     |-> normalized.enterpriseFeatures,
                    isMultiPhase           |-> normalized.isMultiPhase,
                    stagePercentages       |-> NoValue,
                    hourlyRates            |-> NoValue ])
    /\ revenue' = revenueProjectionsTool(
                      [ businessModel    |-> normalized.businessModel,
                        targetMarket     |-> normalized.marketCategory,
                        geographyFocus   |-> "United States",
                        currency         |-> "$",
                        marketParameters |-> NoValue ])
    /\ pc' = "calculatePricing"
    /\ UNCHANGED << inputData, normalized, pricing, validation, error, call >>

calculateDIYStep ==
    /\ pc = "calculateDIY"
    /\ diy' = diyCalculatorTool(
                  [ backendHours           |-> normalized.estimatedBackendHours,
                    features               |-> normalized.normalizedFeatures,
                    priority               |-> normalized.backendComplexity,
                    complianceRequirements |-> normalized.complianceRequirements,
                    enterpriseFeatures     |-> normalized.enterpriseFeatures,
                    isMultiPhase           |-> normalized.isMultiPhase,
                    stagePercentages       |-> NoValue,
                    hourlyRates            |-> NoValue ])
    /\ pc' = "calculateRevenue"
    /\ UNCHANGED << inputData, normalized, revenue, pricing, validation, error, call >>

calculateRevenueStep ==
    /\ pc = "calculateRevenue"
    /\ revenue' = revenueProjectionsTool(
                      [ businessModel    |-> normalized.businessModel,
                        targetMarket     |-> normalized.marketCategory,
                        geographyFocus   |-> "United States",
                        currency         |-> "$",
                        marketParameters |-> NoValue ])
    /\ pc' = "calculatePricing"
    /\ UNCHANGED << inputData, normalized, diy, pricing, validation, error, call >>

calculatePricingStep ==
    /\ pc = "calculatePricing"
    /\ pricing' = oneqPricingTool(
                      [ diyCost                |-> diy.totalDIYCost,
                        complexity             |-> normalized.backendComplexity,
                        expeditedDelivery      |-> FALSE,
                        extendedSupport        |-> FALSE,
                        complianceRequirements |-> normalized.complianceRequirements ])
    /\ pc' = "validateConsistency"
    /\ UNCHANGED << inputData, normalized, diy, revenue, validation, error, call >>

validateConsistencyStep ==
    /\ pc = "validateConsistency"
    /\ validation' = consistencyValidationTool(
                         [ normalizedInputs   |-> [ complexity |-> normalized.backendComplexity ],
                           calculationResults |-> [ diyCost   |-> diy.totalDIYCost,
                                                    oneQPrice |-> pricing.corePrice ] ])
    /\ pc' = "done"
    /\ UNCHANGED << inputData, normalized, diy, revenue, pricing, error, call >>

Next ==
    \/ StartRun
    \/ normalizeInputStep
    \/ calculateDIYStep
    \/ calculateRevenueStep
    \/ calculatePricingStep
    \/ validateConsistencyStep

Spec == Init /\ [][Next]_vars

(***************************************************************************)
(* The tools invoked on their own, as the agent invokes them: one          *)
(* invocation with an input of the tool's input schema, recorded in call.  *)
(***************************************************************************)
\* enterpriseFeatures as a caller may pass them: keywords of the normalizer's
\* table, one for each specialist test and one ("containerized") that two
\* tests match.
enterpriseFeatureInputs ==
    << "machine learning", "encryption", "microservices", "kubernetes", "containerized" >>

Range(seq) == {seq[i] : i \in 1..Len(seq)}

\* The lists over the entries of order, in that order, of at most n entries.
ListsUpTo(order, n) ==
    {SelectSeq(order, LAMBDA x : x \in T) : T \in SubsetsUpTo(Range(order), n)}

\* The record a caller gets when it passes hourlyRates: {} (the schema's defaults).
schemaHourlyRates ==
    [ planning |-> 120, design |-> 95, htmlMarkup |-> 75, frontend |-> 85, backend |-> 100,
      qa |-> 70, management |-> 140, aiMlEngineer |-> 175, securitySpecialist |-> 165,
      enterpriseArchitect |-> 180, complianceExpert |-> 190, devOpsEngineer |-> 130,
      cloudArchitect |-> 155 ]

HourlyRateInputs == {NoValue, schemaHourlyRates}

StagePercentageInputs ==
    { NoValue,
      [ planning |-> 10, design |-> 10, htmlMarkup |-> 10, frontend |-> 20, backend |-> 40,
        qa |-> 5, management |-> 5 ],
      [ planning |-> 10, design |-> 10, htmlMarkup |-> 15, frontend |-> 35, backend |-> 0,
        qa |-> 10, management |-> 20 ] }

BackendHoursInputs == {0, 1} \cup {85 * k : k \in 1..MaxHoursUnits}

InvokeDiyCalculator ==
    /\ pc = "idle"
    /\ call = NoCall
    /\ \E backendHours \in BackendHoursInputs,
          priority \in Complexities,
          compliance \in ListsUpTo(complianceOrder, MaxComplianceLen),
          features \in ListsUpTo(enterpriseFeatureInputs, MaxEnterpriseLen),
          multiPhase \in BOOLEAN,
          percentages \in StagePercentageInputs,
          rates \in HourlyRateInputs :
           LET context == [ backendHours           |-> backendHours,
                            features               |-> << >>,
                            priority               |-> priority,
                            complianceRequirements |-> compliance,
                            enterpriseFeatures     |-> features,
                            isMultiPhase           |-> multiPhase,
                            stagePercentages       |-> percentages,
                            hourlyRates            |-> rates ]
           IN  call' = [ tool |-> "calculateDIYCost", in |-> context,
                         out |-> diyCalculatorTool(context) ]
    /\ UNCHANGED workflowVars

(***************************************************************************)
(* The earlier cost calculator, costCalculatorTool, which works from a     *)
(* list of development requests.  It does not round: hours and costs are   *)
(* carried as fractions num/den.  Of its output the model keeps the totals,*)
(* the stage breakdown and the project summary; team requirements and      *)
(* additional costs are fixed multiples of the stage costs.                *)
(***************************************************************************)
costStageKeys ==
    << "planning", "design", "html", "frontend", "backend", "qa", "management" >>

costStagePercentages(custom) ==
    IF custom # NoValue THEN custom
    ELSE [ planning |-> 8, design |-> 8, html |-> 11, frontend |-> 26, backend |-> 32,
           qa |-> 5, management |-> 10 ]

costHourlyRates ==
    [ planning |-> 200, design |-> 250, html |-> 180, frontend |-> 280, backend |-> 300,
      qa |-> 220, management |-> 350 ]

\* backendPercent > 0 ? (totalBackendHours / backendPercent) * 100 : 0
costTotalProjectHours(totalBackendHours, backendPercent) ==
    IF backendPercent > 0
    THEN [ num |-> totalBackendHours * 100, den |-> backendPercent ]
    ELSE [ num |-> 0, den |-> 1 ]

\* Math.ceil(developmentRequests.length / 2)
costTeamSize(requests) == MathCeil(Len(requests), 2)

\* Math.ceil(totalProjectHours / (teamSize * 40)) and the months from it:
\* 0/0 is NaN for a team of 0 (an empty request list has no hours either).
estimatedDuration(total, team) ==
    IF team = 0
    THEN [ isNaN |-> TRUE, weeks |-> 0, months |-> 0 ]
    ELSE LET weeks == MathCeil(total.num, total.den * team * 40)
         IN  [ isNaN |-> FALSE, weeks |-> weeks, months |-> MathCeil(weeks, 4) ]

costCalculatorTool(context) ==
    LET requests    == context.developmentRequests
        percentages == costStagePercentages(context.stagePercentages)
        backend     == SumSeq(MapSeq(requests, LAMBDA req : req.backendHours))
        total       == costTotalProjectHours(backend, percentages.backend)
        stages      == MapSeq(costStageKeys, LAMBDA key :
                           [ stage      |-> key,
                             percentage |-> percentages[key],
                             hours      |-> [ num |-> percentages[key] * total.num,
                                              den |-> 100 * total.den ],
                             hourlyRate |-> costHourlyRates[key],
                             cost       |-> [ num |-> percentages[key] * total.num
                                                          * costHourlyRates[key],
                                              den |-> 100 * total.den ] ])
        team        == costTeamSize(requests)
    IN  [ totalBackendHours |-> backend,
          totalProjectHours |-> total,
          totalProjectCost  |-> [ num |-> SumSeq(MapSeq(stages, LAMBDA st : st.cost.num)),
                                  den |-> 100 * total.den ],
          stageBreakdown    |-> stages,
          projectSummary    |->
              [ complexity          |-> IF backend < 100 THEN "Simple"
                                        ELSE IF backend < 300 THEN "Medium" ELSE "Complex",
                estimatedDuration   |-> estimatedDuration(total, team),
                recommendedTeamSize |-> team ] ]

DevelopmentRequestInputs ==
    << [ backendHours |-> 40, priority |-> 3 ], [ backendHours |-> 120, priority |-> 5 ],
       [ backendHours |-> 200, priority |-> 1 ] >>

CostStagePercentageInputs ==
    { NoValue,
      [ planning |-> 10, design |-> 10, html |-> 10, frontend |-> 20, backend |-> 40,
        qa |-> 5, management |-> 5 ],
      [ planning |-> 10, design |-> 10, html |-> 15, frontend |-> 35, backend |-> 0,
        qa |-> 10, management |-> 20 ] }

InvokeCostCalculator ==
    /\ pc = "idle"
    /\ call = NoCall
    /\ \E requests \in ListsUpTo(DevelopmentRequestInputs, MaxRequests),
          percentages \in CostStagePercentageInputs :
           LET context == [ developmentRequests |-> requests,
                            stagePercentages    |-> percentages ]
           IN  call' = [ tool |-> "calculate-project-cost", in |-> context,
                         out |-> costCalculatorTool(context) ]
    /\ UNCHANGED workflowVars

\* The estimator's team size and timeline on every total the rounding to 10
\* can produce up to the bound, more than the backend hours above reach.
EstimateTimeline ==
    /\ pc = "idle"
    /\ call = NoCall
    /\ \E tens \in 0..MaxTotalHoursTens, multiPhase \in BOOLEAN :
           LET total == 10 * tens
           IN  call' = [ tool |-> "timeline",
                         in   |-> [ totalProjectHours |-> total, isMultiPhase |-> multiPhase ],
                         out  |-> timeline(total, teamSize(total, multiPhase), multiPhase) ]
    /\ UNCHANGED workflowVars

SpecCost == Init /\ [][InvokeDiyCalculator \/ InvokeCostCalculator \/ EstimateTimeline]_vars

\* The normalizer on a roadmap text.
InvokeNormalizer ==
    /\ pc = "idle"
    /\ call = NoCall
    /\ \E text \in RoadmapTexts \ {{}}, industry \in Industries :
           LET context == [ roadmapText |-> text, industry |-> industry ]
           IN  call' = [ tool |-> "normalizeRoadmapInput", in |-> context,
                         out |-> inputNormalizationTool(context) ]
    /\ UNCHANGED workflowVars

\* The normalizer's hour estimate on every tier and every number of matched
\* features the keyword table allows, more than the texts of the model reach.
EstimateBackendHours ==
    /\ pc = "idle"
    /\ call = NoCall
    /\ \E complexity \in Complexities, featureCount \in 0..Len(featureKeywords) :
           call' = [ tool |-> "estimatedBackendHours",
                     in   |-> [ complexity |-> complexity, featureCount |-> featureCount ],
                     out  |-> estimatedBackendHours(complexity, featureCount) ]
    /\ UNCHANGED workflowVars

SpecNormalizer == Init /\ [][InvokeNormalizer \/ EstimateBackendHours]_vars

\* Parameter bags a caller may pass: the defaults with some parameters replaced.
\* The copy of the tool the salesman agent defines for itself and registers
\* under the same id: its switch has no case for "enterprise", which leaves
\* the initial 0, the empty basis string and the empty metrics object.
agentModelRevenue(model, params) ==
    IF model = "enterprise" THEN [ num |-> 0, den |-> 1 ] ELSE modelRevenue(model, params)

agentRevenueProjectionsTool(context) ==
    LET params  == marketParams(context.marketParameters)
        raw     == agentModelRevenue(context.businessModel, params)
        monthly == MathRound(raw.num * params.marketPenetrationFactor, raw.den * 100)
    IN  [ monthlyRevenuePotential |-> monthly,
          marketAnalysisBasis     |-> IF context.businessModel = "enterprise" THEN ""
                                      ELSE [ model |-> context.businessModel,
                                             geographyFocus |-> context.geographyFocus,
                                             currency |-> context.currency ],
          businessModelMetrics    |-> IF context.businessModel = "enterprise" THEN << >>
                                      ELSE businessModelMetrics(context.businessModel, params),
          delayCosts              |-> delayCosts(monthly),
          firstMoverAdvantage     |-> MathRound(monthly * 180, 100),
          conservativeProjection  |-> MathRound(monthly * 65, 100) ]

MarketParameterInputs ==
    { [ defaultMarketParameters EXCEPT
            !.saasArpu = arpu, !.saasChurnRate = churn, !.ecommerceAOV = aov,
            !.b2bWinRate = winRate, !.mobileRevenuePerUser = perUser,
            !.enterpriseDealsPerQuarter = deals, !.marketPenetrationFactor = penetration ] :
        arpu \in {150, 99}, churn \in {10, 3}, aov \in {180, 75}, winRate \in {25, 33},
        perUser \in {350, 199}, deals \in {2, 1}, penetration \in {70, 55, 100} }

InvokeRevenueProjections ==
    /\ pc = "idle"
    /\ call = NoCall
    /\ \E model \in Range(businessModelOrder),
          parameters \in {NoValue} \cup MarketParameterInputs :
           LET context == [ businessModel    |-> model,
                            targetMarket     |-> "Technology",
                            geographyFocus   |-> "United States",
                            currency         |-> "$",
                            marketParameters |-> parameters ]
           IN  call' = [ tool |-> "calculateRevenueProjections", in |-> context,
                         out |-> revenueProjectionsTool(context),
                         definedIn |-> "revenue-projections-tool" ]
    /\ UNCHANGED workflowVars

\* The salesman agent invoking the tool of that id in its own tools table.
InvokeAgentRevenueProjections ==
    /\ pc = "idle"
    /\ call = NoCall
    /\ \E model \in Range(businessModelOrder),
          parameters \in {NoValue} \cup MarketParameterInputs :
           LET context == [ businessModel    |-> model,
                            targetMarket     |-> "Technology",
                            geographyFocus   |-> "United States",
                            currency         |-> "$",
                            marketParameters |-> parameters ]
           IN  call' = [ tool |-> "calculateRevenueProjections", in |-> context,
                         out |-> agentRevenueProjectionsTool(context),
                         definedIn |-> "salesman-agent" ]
    /\ UNCHANGED workflowVars

SpecRevenue == Init /\ [][InvokeRevenueProjections \/ InvokeAgentRevenueProjections]_vars

\* and the documented example, 252000
DiyCostInputs == {2500 * k : k \in 1..MaxDiyCostUnits} \cup {252000}

PricingComplianceInputs == { << >>, << "SOC2" >>, << "GDPR", "HIPAA" >> }

InvokePricing ==
    /\ pc = "idle"
    /\ call = NoCall
    /\ \E diyCost \in DiyCostInputs,
          complexity \in Complexities,
          expeditedDelivery \in BOOLEAN,
          extendedSupport \in BOOLEAN,
          compliance \in PricingComplianceInputs :
           LET context == [ diyCost                |-> diyCost,
                            complexity             |-> complexity,
                            expeditedDelivery      |-> expeditedDelivery,
                            extendedSupport        |-> extendedSupport,
                            complianceRequirements |-> compliance ]
           IN  call' = [ tool |-> "calculateOneQPricing", in |-> context,
                         out |-> oneqPricingTool(context) ]
    /\ UNCHANGED workflowVars

SpecPricing == Init /\ [][InvokePricing]_vars

CheckerCostInputs == {20300 * k : k \in 1..MaxCheckerCosts} \cup {100000}

CheckerPriceInputs == {1000 * k : k \in 0..MaxCheckerPrices}

InvokeConsistencyCheck ==
    /\ pc = "idle"
    /\ call = NoCall
    /\ \E complexity \in Complexities,
          diyCost \in CheckerCostInputs,
          oneQPrice \in CheckerPriceInputs :
           LET context == [ normalizedInputs   |-> [ complexity |-> complexity ],
                            calculationResults |-> [ diyCost |-> diyCost,
                                                     oneQPrice |-> oneQPrice ] ]
           IN  call' = [ tool |-> "validateConsistency", in |-> context,
                         out |-> consistencyValidationTool(context),
                         reinvoked |-> FALSE, first |-> NoValue ]
    /\ UNCHANGED workflowVars

\* The checker invoked again on the values of its own output, same tier.
ReinvokeConsistencyCheck ==
    /\ call.tool = "validateConsistency"
    /\ ~call.reinvoked
    /\ LET context == [ normalizedInputs   |-> call.in.normalizedInputs,
                        calculationResults |->
                            [ diyCost   |-> call.out.finalPricing.diyCost,
                              oneQPrice |-> call.out.finalPricing.oneQPrice ] ]
       IN  call' = [ tool |-> "validateConsistency", in |-> context,
                     out |-> consistencyValidationTool(context),
                     reinvoked |-> TRUE, first |-> call.out ]
    /\ UNCHANGED workflowVars

\* The checker as the workflow's last step runs it and as the agent invokes it.
SpecChecker ==
    Init /\ [][Next \/ InvokeConsistencyCheck \/ ReinvokeConsistencyCheck]_vars

\* The stage outputs of a finished or failed run.
runRecords ==
    [ normalized |-> normalized, diy |-> diy, revenue |-> revenue,
      pricing |-> pricing, validation |-> validation, error |-> error ]

\* The workflow run a second time on the same input record: the first run's
\* stage outputs are kept aside and the run starts again from its first step.
RerunWorkflow ==
    /\ pc \in {"done", "failed"}
    /\ call = NoCall
    /\ call' = [ tool |-> "directCalculationWorkflow", first |-> runRecords ]
    /\ pc' = "normalizeInput"
    /\ normalized' = NoValue
    /\ diy' = NoValue
    /\ revenue' = NoValue
    /\ pricing' = NoValue
    /\ validation' = NoValue
    /\ error' = ""
    /\ UNCHANGED inputData

SpecRerun == Init /\ [][Next \/ RerunWorkflow]_vars

(***************************************************************************)
(* AG-UI integration layer (OneQAGUIIntegration, v3.0).  An event is kept  *)
(* as its type and component; its props and its Date.now() timestamp are   *)
(* left out.  An agent response is kept as the state of each of its        *)
(* sections: present, absent, or present without one of the parts an emit  *)
(* step reads.  The integration object lives in the variable call: the     *)
(* emitter's event list, the list last returned to the caller, and whether *)
(* that list is the emitter's own array (getEvents returns this.events     *)
(* itself, so later pushes show in it until clearEvents replaces the       *)
(* array), and whether the last process call's clearEvents discarded any   *)
(* event.                                                                  *)
(***************************************************************************)
CompleteResponse ==
    [ toolChainResults |-> "present", reasoningTrace |-> "present",
      theOffer |-> "present", savingsBreakdown |-> "present",
      executiveSummaryTable |-> "present", costOfDelay |-> "present",
      teamBreakdown |-> "present", modularOptions |-> "present" ]

SectionStates ==
    [ toolChainResults |-> {"present", "absent", "noValidation"},
      reasoningTrace |-> {"present", "absent"},
      theOffer |-> {"present", "absent"},
      savingsBreakdown |-> {"present", "absent"},
      executiveSummaryTable |-> {"present", "absent", "noTimeToMarket", "noRevenueOpportunity"},
      costOfDelay |-> {"present", "absent"},
      teamBreakdown |-> {"present", "absent"},
      modularOptions |-> {"present", "absent"} ]

\* The complete response with up to n sections altered.
ResponsesAltered(n) ==
    UNION { { [ s \in DOMAIN CompleteResponse |->
                  IF s \in altered THEN states[s] ELSE "present" ] :
              states \in [ altered -> UNION {SectionStates[s] : s \in altered} ] }
            : altered \in SubsetsUpTo(DOMAIN CompleteResponse, n) }

AgentResponses ==
    { r \in ResponsesAltered(MaxAltered) :
        \A s \in DOMAIN CompleteResponse : r[s] \in SectionStates[s] }

\* The emit steps of processEnhancedAgentResponse in program order: the event
\* each pushes, whether the step is taken at all, and whether it goes through
\* or throws a TypeError on a missing section.
emitSteps(response) ==
    LET tools   == response.toolChainResults
        summary == response.executiveSummaryTable
    IN  << [ type |-> "generative_ui", component |-> "CalculationTransparency",
             taken |-> tools # "absent", ok |-> TRUE ],
           [ type |-> "confidence_indicator", component |-> "ConsistencyConfidence",
             taken |-> tools # "absent", ok |-> tools # "noValidation" ],
           [ type |-> "generative_ui", component |-> "ReasoningTrace",
             taken |-> response.reasoningTrace # "absent", ok |-> TRUE ],
           [ type |-> "generative_ui", component |-> "OfferHeadline",
             taken |-> TRUE, ok |-> TRUE ],
           [ type |-> "generative_ui", component |-> "ExecutiveSummaryTable",
             taken |-> TRUE, ok |-> TRUE ],
           [ type |-> "generative_ui", component |-> "EnhancedPricingCalculator",
             taken |-> TRUE, ok |-> summary # "absent" ],
           [ type |-> "generative_ui", component |-> "TimeToMarketChart",
             taken |-> TRUE, ok |-> summary \notin {"absent", "noTimeToMarket"} ],
           [ type |-> "generative_ui", component |-> "RevenueOpportunityChart",
             taken |-> TRUE, ok |-> summary \notin {"absent", "noRevenueOpportunity"} ],
           [ type |-> "generative_ui", component |-> "DelayImpactChart",
             taken |-> TRUE, ok |-> response.costOfDelay # "absent" ],
           [ type |-> "generative_ui", component |-> "TeamBreakdownChart",
             taken |-> TRUE, ok |-> response.teamBreakdown # "absent" ],
           [ type |-> "generative_ui", component |-> "ModularOptionsSelector",
             taken |-> TRUE, ok |-> response.modularOptions # "absent" ],
           [ type |-> "generative_ui", component |-> "PostSessionUrgency",
             taken |-> TRUE, ok |-> summary \notin {"absent", "noRevenueOpportunity"} ] >>

AGUIEvent(step) == [ type |-> step.type, component |-> step.component ]

\* Emit steps that skip a failing step and go on with the next one.
emittedEventsSkipping(response) ==
    MapSeq(SelectSeq(emitSteps(response), LAMBDA step : step.taken /\ step.ok), AGUIEvent)

\* The events pushed inside the try block: those of the steps taken, up to
\* the first one that throws; the catch block logs and goes on to the return.
emittedEvents(response) ==
    LET steps  == SelectSeq(emitSteps(response), LAMBDA step : step.taken)
        thrown == {i \in 1..Len(steps) : ~steps[i].ok}
        last   == IF thrown = {} THEN Len(steps)
                  ELSE (CHOOSE i \in thrown : \A j \in thrown : i <= j) - 1
    IN  MapSeq(SubSeq(steps, 1, last), AGUIEvent)

\* emitCalculationStep's event: no component
calculationUpdate == [ type |-> "calculation_update", component |-> "" ]

\* What a text response can carry for the deprecated text parser.
ResponseData == {"pricing", "delayCost", "teamBreakdown", "modularOptions"}

\* The texts handed to it: one that carries nothing, one for each single kind
\* of data, and one that carries all four.
TextResponses == {{}, ResponseData} \cup {{kind} : kind \in ResponseData}

IntegrationCreated == call.tool = "OneQAGUIIntegration"

\* new OneQAGUIIntegration()
NewIntegration ==
    /\ pc = "idle"
    /\ call = NoCall
    /\ call' = [ tool |-> "OneQAGUIIntegration", method |-> "constructor", in |-> NoValue,
                 events |-> << >>, returned |-> << >>, aliased |-> FALSE,
                 cleared |-> FALSE ]
    /\ UNCHANGED workflowVars

\* A process call that keeps the calculation_update events the emitter holds.
processEnhancedKeepingProgress ==
    /\ IntegrationCreated
    /\ \E response \in AgentResponses :
           LET kept == SelectSeq(call.events, LAMBDA e : e = calculationUpdate)
           IN  call' = [ call EXCEPT !.method = "processEnhancedAgentResponse",
                                     !.in = response,
                                     !.events = kept \o emittedEvents(response),
                                     !.returned = kept \o emittedEvents(response),
                                     !.aliased = TRUE,
                                     !.cleared = call.events # << >> ]
    /\ UNCHANGED workflowVars

\* clearEvents(), the emit steps, return getEvents()
processEnhancedAgentResponse ==
    /\ IntegrationCreated
    /\ \E response \in AgentResponses :
           call' = [ call EXCEPT !.method = "processEnhancedAgentResponse",
                                 !.in = response,
                                 !.events = emittedEvents(response),
                                 !.returned = emittedEvents(response),
                                 !.aliased = TRUE,
                                 !.cleared = call.events # << >> ]
    /\ UNCHANGED workflowVars

\* The legacy entry: the response with a default confidence and a timestamp
\* added, handed to processEnhancedAgentResponse.
processStructuredAgentResponse ==
    /\ IntegrationCreated
    /\ \E response \in AgentResponses :
           call' = [ call EXCEPT !.method = "processStructuredAgentResponse",
                                 !.in = response,
                                 !.events = emittedEvents(response),
                                 !.returned = emittedEvents(response),
                                 !.aliased = TRUE,
                                 !.cleared = call.events # << >> ]
    /\ UNCHANGED workflowVars

\* emitCalculationStep pushes onto the emitter's array, and with it onto the
\* list a caller still holds from getEvents.
emitCalculationProgress ==
    /\ IntegrationCreated
    /\ Len(SelectSeq(call.events, LAMBDA e : e = calculationUpdate)) < MaxProgressEvents
    /\ call' = [ call EXCEPT !.method = "emitCalculationProgress",
                             !.events = Append(call.events, calculationUpdate),
                             !.returned = IF call.aliased
                                          THEN Append(call.returned, calculationUpdate)
                                          ELSE call.returned ]
    /\ UNCHANGED workflowVars

getAGUIEvents ==
    /\ IntegrationCreated
    /\ call' = [ call EXCEPT !.method = "getAGUIEvents",
                             !.returned = call.events,
                             !.aliased = TRUE ]
    /\ UNCHANGED workflowVars

\* What the deprecated text parser hands back, whatever the text carries.
deprecatedParseResult(carried) == << >>

\* console.warn(...); return []
processAgentResponse ==
    /\ IntegrationCreated
    /\ \E carried \in TextResponses :
           call' = [ call EXCEPT !.method = "processAgentResponse",
                                 !.in = carried,
                                 !.returned = deprecatedParseResult(carried),
                                 !.aliased = FALSE ]
    /\ UNCHANGED workflowVars

SpecAGUI ==
    Init /\ [][ NewIntegration \/ processEnhancedAgentResponse
                \/ processStructuredAgentResponse \/ emitCalculationProgress
                \/ getAGUIEvents \/ processAgentResponse ]_vars

(***************************************************************************)
(* Properties.                                                             *)
(***************************************************************************)
\* The tiers in the order of the input schemas' enum.
tierOrder == << "simple", "medium", "complex", "enterprise", "platform" >>

TierRank(complexity) == CHOOSE i \in 1..Len(tierOrder) : tierOrder[i] = complexity

\* The standards the documentation names as recognized.
recognizedStandards == {"SOC2", "GDPR", "HIPAA", "PCI", "ISO27001", "FedRAMP", "CCPA"}

\* |price - diyCost * percent%| <= 500 and price a multiple of 1000: price is
\* diyCost * percent% rounded to the nearest 1000, whichever way a tie falls.
IsNearestThousand(price, diyCost, percent) ==
    /\ price % 1000 = 0
    /\ Abs(100 * price - diyCost * percent) <= 50000

PriceOf(options, name) ==
    LET found == {i \in 1..Len(options) : options[i].name = name}
    IN  IF found = {} THEN 0 ELSE options[CHOOSE i \in found : TRUE].price

DiyCalled == call.tool = "calculateDIYCost"

PricingCalled == call.tool = "calculateOneQPricing"

RevenueCalled == call.tool = "calculateRevenueProjections"

CheckerCalled == call.tool = "validateConsistency"

HoursEstimated == call.tool = "estimatedBackendHours"

C2_CheckerKeepsValues ==
    /\ CheckerCalled =>
          /\ call.out.finalPricing.diyCost = call.in.calculationResults.diyCost
          /\ call.out.finalPricing.oneQPrice = call.in.calculationResults.oneQPrice
    /\ pc = "done" =>
          /\ validation.finalPricing.diyCost = diy.totalDIYCost
          /\ validation.finalPricing.oneQPrice = pricing.corePrice

\* A rejected pair of values that are no multiples of 1000 and 100.
C2_Witness ==
    /\ CheckerCalled
    /\ ~call.out.isConsistent
    /\ call.in.calculationResults.diyCost % 1000 # 0
    /\ call.in.calculationResults.oneQPrice > 0
    /\ call.out.finalPricing.diyCost = call.in.calculationResults.diyCost

\* C3: whatever the flags, the returned corePrice is diyCost times the tier's
\* multiplier (plus 0.02 with a non-empty compliance list) rounded to the
\* nearest 1000.
C3_CorePriceIsRoundedShare ==
    PricingCalled =>
        IsNearestThousand(call.out.corePrice, call.in.diyCost,
                          tierMultiplier[call.in.complexity]
                            + (IF Len(call.in.complianceRequirements) > 0 THEN 2 ELSE 0))

\* C4: the quoted total is the rounded core price, plus the Expedited Delivery
\* price iff expeditedDelivery is set, plus the Extended Support price iff
\* extendedSupport is set; Additional Features and Compliance Certification
\* are never part of it; totalSavings is diyCost minus that total.
C4_TotalIsCorePlusFlaggedOptions ==
    PricingCalled =>
        LET options == call.out.modularOptions
            core    == PriceOf(options, "Core Implementation")
        IN  /\ IsNearestThousand(core, call.in.diyCost,
                                 tierMultiplier[call.in.complexity]
                                   + (IF Len(call.in.complianceRequirements) > 0
                                      THEN 2 ELSE 0))
            /\ call.out.corePrice
                 = core
                   + (IF call.in.expeditedDelivery
                      THEN PriceOf(options, "Expedited Delivery") ELSE 0)
                   + (IF call.in.extendedSupport
                      THEN PriceOf(options, "Extended Support") ELSE 0)
            /\ call.out.totalSavings = call.in.diyCost - call.out.corePrice

\* Both flags set on a tier that also offers the two options never charged.
C4_Witness ==
    /\ PricingCalled
    /\ call.in.expeditedDelivery
    /\ call.in.extendedSupport
    /\ PriceOf(call.out.modularOptions, "Additional Features") > 0
    /\ PriceOf(call.out.modularOptions, "Compliance Certification") > 0
    /\ call.out.corePrice > PriceOf(call.out.modularOptions, "Core Implementation")

\* C5: with no options selected (the workflow's pricing step), the OneQ price
\* lies between 35% and 45% of the calculated DIY cost.
C5_PriceWithin35To45Percent ==
    pc \in {"validateConsistency", "done"} =>
        /\ 35 * diy.totalDIYCost <= 100 * pricing.corePrice
        /\ 100 * pricing.corePrice <= 45 * diy.totalDIYCost

\* C6 as stated: threeMonth is 3 x oneMonth and 6 x twoWeek.
C6_DelayCostsExactMultiples ==
    RevenueCalled =>
        LET costs == call.out.delayCosts
        IN  /\ costs.oneMonth = call.out.monthlyRevenuePotential
            /\ costs.threeMonth = 3 * costs.oneMonth
            /\ costs.threeMonth = 6 * costs.twoWeek

\* C6: oneMonth is the monthly revenue potential and threeMonth is 3 x
\* oneMonth; twoWeek is half of oneMonth rounded half up, so 6 x twoWeek is
\* threeMonth for an even monthly figure and threeMonth + 3 for an odd one.
C6_DelayCostsRoundedHalf ==
    RevenueCalled =>
        LET costs == call.out.delayCosts
        IN  /\ costs.oneMonth = call.out.monthlyRevenuePotential
            /\ costs.threeMonth = 3 * costs.oneMonth
            /\ 6 * costs.twoWeek
                 = costs.threeMonth + (IF costs.oneMonth % 2 = 1 THEN 3 ELSE 0)

\* The default SaaS projection: 2363 a month, 1182 for two weeks.
C6_Witness ==
    /\ RevenueCalled
    /\ call.in.marketParameters = NoValue
    /\ call.in.businessModel = "saas"
    /\ call.out.delayCosts.oneMonth % 2 = 1
    /\ call.out.delayCosts.threeMonth > 0

\* C7 as stated: the checker run again on its own output always reports
\* isConsistent true.
C7_ReinvocationIsConsistent ==
    (CheckerCalled /\ call.reinvoked) => call.out.isConsistent

\* C7: the checker run again on the values of its own output, same tier,
\* reports what the first run reported: the same isConsistent, the same score
\* and the same values.
C7_ReinvocationRepeatsVerdict ==
    (CheckerCalled /\ call.reinvoked) =>
        /\ call.out.isConsistent = call.first.isConsistent
        /\ call.out.consistencyScore = call.first.consistencyScore
        /\ call.out.finalPricing = call.first.finalPricing

\* A second run after a first run that rejected its input.
C7_Witness ==
    /\ CheckerCalled
    /\ call.reinvoked
    /\ ~call.first.isConsistent
    /\ ~call.out.isConsistent

\* C8: a compliance list of exactly one recognized standard raises the
\* hidden-cost multiplier by a positive delta: recruitment, benefits and
\* onboarding come out above 20%, 35% and 25% of the salary costs.
C8_SingleStandardRaisesMultiplier ==
    ( /\ DiyCalled
      /\ Len(call.in.complianceRequirements) = 1
      /\ call.in.complianceRequirements[1] \in recognizedStandards
      /\ call.in.backendHours >= 85 ) =>
        LET salary == SumSeq(MapSeq(call.out.stageBreakdown, LAMBDA st : st.cost))
        IN  /\ complianceMultiplier(call.in.complianceRequirements) > 100
            /\ call.out.hiddenCosts.recruitmentFees > MathRound(salary * 20, 100)
            /\ call.out.hiddenCosts.benefitsOverhead > MathRound(salary * 35, 100)
            /\ call.out.hiddenCosts.onboardingCosts > MathRound(salary * 25, 100)

\* C9: the estimated backend hours are a non-negative multiple of 10, for
\* every tier with every feature count 0..48 and for every roadmap text.
C9_HoursAreMultipleOfTen ==
    /\ HoursEstimated => (call.out >= 0 /\ call.out % 10 = 0)
    /\ call.tool = "normalizeRoadmapInput" =>
          /\ call.out.estimatedBackendHours >= 0
          /\ call.out.estimatedBackendHours % 10 = 0

\* The largest estimate: all 48 features on the platform tier.
C9_Witness ==
    /\ HoursEstimated
    /\ call.in.featureCount = 48
    /\ call.in.complexity = "platform"
    /\ call.out = 3840

\* C10: for a fixed feature count the estimate does not go down along
\* simple, medium, complex, enterprise, platform: no lower tier's estimate
\* exceeds the one returned.
C10_HoursNonDecreasingInTier ==
    HoursEstimated =>
        \A lower \in Complexities :
            TierRank(lower) <= TierRank(call.in.complexity) =>
                estimatedBackendHours(lower, call.in.featureCount) <= call.out

\* An enterprise estimate above ten features, with four tiers to compare.
C10_Witness ==
    /\ HoursEstimated
    /\ call.in.complexity = "enterprise"
    /\ call.in.featureCount = 12
    /\ call.out = 600
    /\ estimatedBackendHours("complex", 12) = 380


\* The example text of the documentation, "basic MVP, authentication, dashboard".
ExampleText == {"basic MVP", "authentication", "dashboard"}

NormalizerCalled == call.tool = "normalizeRoadmapInput"

\* C11 as stated: the example text is assessed "medium", estimated at 170
\* backend hours, with two matched features.
C11_ExampleIsMedium170 ==
    (NormalizerCalled /\ call.in.roadmapText = ExampleText) =>
        /\ call.out.backendComplexity = "medium"
        /\ call.out.estimatedBackendHours = 170
        /\ Len(call.out.normalizedFeatures) = 2

\* C11: the example text matches the simple indicators "basic" and "mvp", so
\* it is assessed "simple"; its two matched features (authentication,
\* dashboard) leave the multiplier at 1 and the estimate at 80 backend hours.
C11_ExampleIsSimple80 ==
    (NormalizerCalled /\ call.in.roadmapText = ExampleText) =>
        /\ call.out.backendComplexity = "simple"
        /\ call.out.estimatedBackendHours = 80
        /\ call.out.normalizedFeatures = << "authentication", "dashboard" >>

\* The normalizer has run on the example text.
C11_Witness ==
    /\ NormalizerCalled
    /\ call.in.roadmapText = ExampleText
    /\ StrIncludes("basic mvp", "mvp")
    /\ call.out.backendComplexity = "simple"


\* The pricing tool called on the documented example: 252000, medium, no
\* compliance requirement, no option.
ExamplePricingCall ==
    /\ PricingCalled
    /\ call.in.diyCost = 252000
    /\ call.in.complexity = "medium"
    /\ call.in.complianceRequirements = << >>
    /\ ~call.in.expeditedDelivery
    /\ ~call.in.extendedSupport

\* C12: for diyCost 252000, tier medium, no compliance requirement and no
\* option, the returned corePrice is within 1000 of 93000 and the
\* savingsPercentage is 63.
C12_ExamplePriceAndSavings ==
    ExamplePricingCall =>
        /\ Abs(call.out.corePrice - 93000) <= 1000
        /\ call.out.savingsPercentage = 63

\* The example call has returned: 93000, saving 159000.
C12_Witness ==
    /\ ExamplePricingCall
    /\ call.out.corePrice = 93000
    /\ call.out.totalSavings = 159000


SecondRun == call.tool = "directCalculationWorkflow"

stepSequence ==
    << "normalizeInput", "calculateDIY", "calculateRevenue", "calculatePricing",
       "validateConsistency" >>

\* One move of a run: control passes from a step to the next one only (or
\* from normalizeInput to failure), a step's output is written while that
\* step is in control, once, after the previous step's output exists, and
\* the run is done only with the output of validateConsistency in hand.
StepInOrder ==
    /\ pc' # pc =>
          \/ pc = "idle" /\ pc' = stepSequence[1]
          \/ \E i \in 1..(Len(stepSequence) - 1) :
                 pc = stepSequence[i] /\ pc' = stepSequence[i + 1]
          \/ pc = stepSequence[Len(stepSequence)] /\ pc' = "done"
          \/ pc = "normalizeInput" /\ pc' = "failed"
    /\ normalized' # normalized =>
          pc = "normalizeInput" /\ normalized = NoValue /\ pc' = "calculateDIY"
    /\ diy' # diy =>
          pc = "calculateDIY" /\ diy = NoValue /\ normalized # NoValue
    /\ revenue' # revenue =>
          pc = "calculateRevenue" /\ revenue = NoValue /\ diy # NoValue
    /\ pricing' # pricing =>
          pc = "calculatePricing" /\ pricing = NoValue /\ revenue # NoValue
    /\ validation' # validation =>
          pc = "validateConsistency" /\ validation = NoValue /\ pricing # NoValue
    /\ pc' = "done" => (pc = "validateConsistency" /\ validation' # NoValue)

\* C14: in every run the steps start in the order normalizeInput,
\* calculateDIY, calculateRevenue, calculatePricing, validateConsistency, each
\* at most once and only after the step before it has completed; the run's
\* result is the output of validateConsistency.
C14_StepsRunInOrder == [][StepInOrder]_vars

\* A run that has gone through all five steps.
C14_Witness ==
    /\ pc = "done"
    /\ call = NoCall
    /\ normalized # NoValue
    /\ diy # NoValue
    /\ revenue # NoValue
    /\ pricing # NoValue
    /\ validation # NoValue
    /\ validation.finalPricing.oneQPrice = pricing.corePrice


CostCalled == call.tool = "calculate-project-cost"

\* C15: a zero denominator (a backend share of 0, a team of 0) ends the cost
\* estimate with an error instead of a record, and no record that is returned
\* holds NaN or Infinity, the duration in its timeline text included.
C15_ZeroDenominatorIsAnError ==
    /\ DiyCalled =>
          /\ ~call.out.timeline.isNaN
          /\ call.out.timeline.teamSize # 0
    /\ CostCalled =>
          /\ ~call.out.projectSummary.estimatedDuration.isNaN
          /\ call.out.projectSummary.recommendedTeamSize # 0
          /\ costStagePercentages(call.in.stagePercentages).backend # 0

\* The estimator has returned a record whose timeline is "NaN weeks with 0
\* team members".
C15_Witness ==
    /\ DiyCalled
    /\ call.in.backendHours = 0
    /\ call.out.totalProjectHours = 0
    /\ call.out.timeline.teamSize = 0
    /\ call.out.timeline.isNaN


\* C16: a run whose roadmapText is missing or empty fails at normalizeInput
\* with an error that names the roadmap text, and none of the later steps
\* runs: control never reaches them and no step output is ever written.
C16_EmptyTextFailsAtFirstStep ==
    (inputData # NoValue /\ inputData.roadmapText = {}) =>
        /\ pc \in {"normalizeInput", "failed"}
        /\ pc = "failed" => error = "Roadmap text is required"
        /\ normalized = NoValue
        /\ diy = NoValue
        /\ revenue = NoValue
        /\ pricing = NoValue
        /\ validation = NoValue

\* A run on the empty text has failed.
C16_Witness ==
    /\ inputData # NoValue
    /\ inputData.roadmapText = {}
    /\ pc = "failed"
    /\ error = "Roadmap text is required"


\* C17: for every roadmap text the normalizer's phaseCount is between 1 and 4.
C17_PhaseCountWithin1To4 ==
    NormalizerCalled => call.out.phaseCount \in 1..4

\* A text that states its own number of milestones.
C17_Witness ==
    /\ NormalizerCalled
    /\ "12 milestones" \in call.in.roadmapText
    /\ call.out.phaseCount = 12


\* The component events a list of events holds.
ComponentsIn(events) ==
    { events[i].component : i \in {j \in 1..Len(events) : events[j].type = "generative_ui"} }

DeprecatedCallWithAllData ==
    /\ IntegrationCreated
    /\ call.method = "processAgentResponse"
    /\ call.in = ResponseData

\* C18: processAgentResponse, called with a response that carries pricing,
\* delay-cost, team-breakdown and modular-option data, returns the generative_ui
\* events of the pricing calculator, the delay impact chart, the team breakdown
\* chart and the modular options selector.
C18_DeprecatedEntryReturnsEvents ==
    DeprecatedCallWithAllData =>
        {"EnhancedPricingCalculator", "DelayImpactChart", "TeamBreakdownChart",
         "ModularOptionsSelector"} \subseteq ComponentsIn(call.returned)

C18_Witness ==
    /\ DeprecatedCallWithAllData
    /\ call.returned = << >>


\* C19: every run of the chain normalizer, cost estimator, pricing tool and
\* consistency checker that completes is judged consistent with score 95,
\* also when compliance requirements raise the multiplier by 0.02 and when
\* rounding to the nearest 1,000 moves the price.
C19_ChainIsConsistent ==
    pc = "done" => /\ validation.isConsistent
                   /\ validation.consistencyScore = 95

C19_Witness ==
    /\ pc = "done"
    /\ Len(normalized.complianceRequirements) > 0
    /\ pricing.corePrice * 100 #
           pricingMultiplier(normalized.backendComplexity,
                             normalized.complianceRequirements) * diy.totalDIYCost
    /\ validation.isConsistent
    /\ validation.consistencyScore = 95


\* The backend share a call of the cost estimator names: the caller's
\* stagePercentages.backend when one is given, 32 otherwise.
CallerBackendShare ==
    IF call.in.stagePercentages = NoValue THEN 32 ELSE call.in.stagePercentages.backend

\* C20: the cost estimator's totalProjectHours is backendHours x 100 /
\* backendShare rounded to the nearest 10, with the caller's
\* stagePercentages.backend as the share when one is given and 32 otherwise.
C20_TotalHoursFollowCallerShare ==
    (DiyCalled /\ CallerBackendShare > 0) =>
        call.out.totalProjectHours =
            MathRound(call.in.backendHours * 100, CallerBackendShare * 10) * 10

C20_Witness ==
    /\ DiyCalled
    /\ call.in.stagePercentages # NoValue
    /\ CallerBackendShare = 40
    /\ call.out.totalProjectHours = MathRound(call.in.backendHours * 100, 320) * 10
    /\ call.out.totalProjectHours #
           MathRound(call.in.backendHours * 100, CallerBackendShare * 10) * 10


\* The deviation of the price from the tier's expected share of the DIY cost
\* in a call of the checker, in hundredths of the DIY cost.
CheckerDeviation ==
    Abs(100 * call.in.calculationResults.oneQPrice
        - expectedMultipliers[call.in.normalizedInputs.complexity]
          * call.in.calculationResults.diyCost)

\* C21: the checker reports isConsistent exactly when |oneQPrice/diyCost -
\* tierMultiplier| < 0.05 (simple 0.35, medium 0.37, complex 0.40, enterprise
\* 0.42, platform 0.45), and score 95 when consistent and 85 otherwise.
C21_ConsistentExactlyBelowFivePoints ==
    CheckerCalled =>
        /\ call.out.isConsistent <=>
               (CheckerDeviation < 5 * call.in.calculationResults.diyCost)
        /\ call.out.consistencyScore = IF call.out.isConsistent THEN 95 ELSE 85

\* A deviation of exactly 0.05 reported as consistent.
C21_Witness ==
    /\ CheckerCalled
    /\ call.in.normalizedInputs.complexity = "simple"
    /\ call.in.calculationResults.diyCost = 100000
    /\ call.in.calculationResults.oneQPrice = 30000
    /\ call.out.isConsistent
    /\ call.out.consistencyScore = 95


\* The tiers whose indicator list has a keyword in the text of a normalizer call.
TiersIndicated ==
    { tier \in Complexities :
        \E indicator \in complexityIndicators[tier] :
            TextIncludes(TextLower(call.in.roadmapText), indicator) }

\* The first tier of the sequence that is in the set, "medium" when none is.
FirstTierOf(order, tiers) ==
    LET hits == {i \in 1..Len(order) : order[i] \in tiers}
    IN  IF hits = {} THEN "medium"
        ELSE order[CHOOSE i \in hits : \A j \in hits : i <= j]

\* C22: the normalizer's complexity is the first tier in the order platform,
\* enterprise, complex, simple that has an indicator keyword in the lowercased
\* text, and "medium" when none of the four has; the medium indicators never
\* change the result.
C22_FirstIndicatedTierWins ==
    NormalizerCalled =>
        call.out.backendComplexity =
            FirstTierOf(<< "platform", "enterprise", "complex", "simple" >>,
                        TiersIndicated \ {"medium"})

\* A text with a platform, a simple and a medium indicator is "platform".
C22_Witness ==
    /\ NormalizerCalled
    /\ {"platform", "simple", "medium"} \subseteq TiersIndicated
    /\ call.out.backendComplexity = "platform"


\* The stage names of the stageBreakdown a call of the cost estimator returned.
StagesReturned == [ i \in 1..Len(call.out.stageBreakdown) |-> call.out.stageBreakdown[i].stage ]

StageReturned(stage) == \E i \in 1..Len(StagesReturned) : StagesReturned[i] = stage

\* C23: for the tiers simple, medium and complex the stageBreakdown holds
\* exactly the seven base stages whatever the enterprise-feature and compliance
\* lists are; for enterprise and platform a Compliance Expert stage is present
\* exactly when the compliance list is non-empty, and an Enterprise
\* Architecture stage is always present for platform.
C23_SpecialistStagesByTier ==
    DiyCalled =>
        /\ call.in.priority \in {"simple", "medium", "complex"}
               => StagesReturned = stageNames
        /\ call.in.priority \in {"enterprise", "platform"}
               => (StageReturned("Compliance Expert")
                       <=> Len(call.in.complianceRequirements) > 0)
        /\ call.in.priority = "platform" => StageReturned("Enterprise Architecture")

\* A complex-tier call with an enterprise feature and a compliance requirement.
C23_Witness ==
    /\ DiyCalled
    /\ call.in.priority = "complex"
    /\ call.in.enterpriseFeatures = << "machine learning" >>
    /\ Len(call.in.complianceRequirements) > 0
    /\ StagesReturned = stageNames


\* The monthly revenue potential with default parameters, by business-model tag.
defaultRevenueByTag ==
    [ saas |-> 2363, ecommerce |-> 15750, b2b |-> 6300, mobile |-> 36750, enterprise |-> 5250 ]

\* C24: for each of the five business-model tags the revenue projector applies
\* that model's formula, multiplies by the penetration factor and rounds; with
\* default parameters the monthly revenue potential is 2363, 15750, 6300, 36750
\* and 5250, and so positive for every tag.
C24_EveryTagHasItsFormula ==
    RevenueCalled =>
        /\ call.out.monthlyRevenuePotential =
               monthlyRevenuePotential(call.in.businessModel,
                                       marketParams(call.in.marketParameters))
        /\ call.in.marketParameters = NoValue =>
               /\ call.out.monthlyRevenuePotential = defaultRevenueByTag[call.in.businessModel]
               /\ call.out.monthlyRevenuePotential > 0

\* The agent's tool on the tag "enterprise" with default parameters.
C24_Witness ==
    /\ RevenueCalled
    /\ call.definedIn = "salesman-agent"
    /\ call.in.businessModel = "enterprise"
    /\ call.in.marketParameters = NoValue
    /\ call.out.monthlyRevenuePotential = 0
    /\ call.out.delayCosts.threeMonth = 0


\* C25: the normalizer's enterpriseFeatures list holds an enterprise keyword
\* exactly when the lowercased roadmap text contains that keyword as written
\* in the keyword table, the hyphenated keywords included (a text saying
\* "multi-tenant" yields 'multi-tenant').
C25_KeywordDetectedAsWritten ==
    NormalizerCalled =>
        \A i \in 1..Len(enterpriseKeywords) :
            SeqIncludes(call.out.enterpriseFeatures, enterpriseKeywords[i])
                <=> TextIncludes(TextLower(call.in.roadmapText), enterpriseKeywords[i])

\* The text "multi-tenant", whose enterpriseFeatures list comes back empty.
C25_Witness ==
    /\ NormalizerCalled
    /\ call.in.roadmapText = {"multi-tenant"}
    /\ TextIncludes(TextLower(call.in.roadmapText), "multi-tenant")
    /\ call.out.enterpriseFeatures = << >>


\* C26: for every output of the normalizer fed to the cost estimator, backend
\* hours are at least 80, so total project hours are at least 250, team size
\* is at least 1 and the timeline's week count is a finite positive integer:
\* the pipeline never reaches the estimator's division by a zero team size.
C26_PipelineTeamIsNeverZero ==
    diy # NoValue =>
        /\ normalized.estimatedBackendHours >= 80
        /\ diy.totalProjectHours >= 250
        /\ diy.timeline.teamSize >= 1
        /\ ~diy.timeline.isNaN
        /\ diy.timeline.weeks \in Nat \ {0}

\* The smallest case: a simple project of 80 backend hours.
C26_Witness ==
    /\ diy # NoValue
    /\ normalized.backendComplexity = "simple"
    /\ normalized.estimatedBackendHours = 80
    /\ diy.totalProjectHours = 250
    /\ diy.timeline.teamSize = 1
    /\ diy.timeline.weeks = 7


TimelineEstimated == call.tool = "timeline"

\* Math.ceil(totalProjectHours / (teamSize * 40)) of an estimated timeline
BaseWeeksEstimated == MathCeil(call.in.totalProjectHours, call.out.teamSize * 40)

\* C27: for every input with positive total hours the base timeline is at most
\* 16 weeks when the project is not multi-phase and at most 20 weeks when it
\* is, so the timeline never shows more than 16 weeks (not multi-phase) or 26
\* weeks (multi-phase, after the 1.3 inflation), however large the hours.
C27_TimelineIsCapped ==
    (TimelineEstimated /\ call.in.totalProjectHours > 0) =>
        /\ ~call.out.isNaN
        /\ BaseWeeksEstimated <= (IF call.in.isMultiPhase THEN 20 ELSE 16)
        /\ call.out.weeks <= (IF call.in.isMultiPhase THEN 26 ELSE 16)

\* A large multi-phase project at the cap: 3000 hours, 4 people, 19 base
\* weeks shown as 25.
C27_Witness ==
    /\ TimelineEstimated
    /\ call.in.totalProjectHours = 3000
    /\ call.in.isMultiPhase
    /\ call.out.teamSize = 4
    /\ BaseWeeksEstimated = 19
    /\ call.out.weeks = 25


\* Whether the text of a normalizer call includes a keyword of the set.
TextHasAny(keywords) ==
    \E keyword \in keywords : TextIncludes(TextLower(call.in.roadmapText), keyword)

\* C28: the normalizer returns business model 'enterprise' exactly when the
\* text contains 'large organization' or 'multi-location' and no keyword of
\* the saas, ecommerce, b2b and mobile groups; a text containing 'enterprise
\* software', 'enterprise platform' or 'enterprise solution' is never
\* classified 'enterprise'.
C28_EnterpriseModelOnlyByTwoKeywords ==
    NormalizerCalled =>
        /\ call.out.businessModel = "enterprise" <=>
               /\ TextHasAny({"large organization", "multi-location"})
               /\ ~TextHasAny(businessModelKeywords.saas \cup businessModelKeywords.ecommerce
                              \cup businessModelKeywords.b2b \cup businessModelKeywords.mobile)
        /\ TextHasAny({"enterprise software", "enterprise platform", "enterprise solution"})
               => call.out.businessModel # "enterprise"

\* A text with 'large organization' and 'enterprise platform' is b2b.
C28_Witness ==
    /\ NormalizerCalled
    /\ call.in.roadmapText = {"large organization", "enterprise platform"}
    /\ call.out.businessModel = "b2b"


\* The components of a list of events, in order.
ComponentsOf(events) == [ i \in 1..Len(events) |-> events[i].component ]

\* The last operation on the integration object was processEnhancedAgentResponse.
EnhancedReturned ==
    /\ IntegrationCreated
    /\ call.method = "processEnhancedAgentResponse"

\* Every section the emit steps read is there; the tool chain results and the
\* reasoning trace may be left out.
ResponseIsComplete(response) ==
    /\ \A s \in DOMAIN response \ {"toolChainResults", "reasoningTrace"} :
           response[s] = "present"
    /\ response.toolChainResults \in {"present", "absent"}

\* The full sequence of components for a response.
FullSequence(response) ==
    (IF response.toolChainResults # "absent"
     THEN << "CalculationTransparency", "ConsistencyConfidence" >> ELSE << >>)
    \o (IF response.reasoningTrace # "absent" THEN << "ReasoningTrace" >> ELSE << >>)
    \o << "OfferHeadline", "ExecutiveSummaryTable", "EnhancedPricingCalculator",
          "TimeToMarketChart", "RevenueOpportunityChart", "DelayImpactChart",
          "TeamBreakdownChart", "ModularOptionsSelector", "PostSessionUrgency" >>

\* C29: on a complete response processEnhancedAgentResponse returns exactly
\* the sequence CalculationTransparency, ConsistencyConfidence (when
\* toolChainResults is present), ReasoningTrace (when reasoningTrace is
\* present), OfferHeadline, ExecutiveSummaryTable, EnhancedPricingCalculator,
\* TimeToMarketChart, RevenueOpportunityChart, DelayImpactChart,
\* TeamBreakdownChart, ModularOptionsSelector, PostSessionUrgency; no event
\* emitted before the call appears in the returned list.
C29_CompleteResponseFullSequence ==
    (EnhancedReturned /\ ResponseIsComplete(call.in)) =>
        /\ ComponentsOf(call.returned) = FullSequence(call.in)
        /\ \A i \in 1..Len(call.returned) : call.returned[i] # calculationUpdate

\* A complete response processed by an emitter that held earlier events.
C29_Witness ==
    /\ EnhancedReturned
    /\ call.in = CompleteResponse
    /\ call.cleared
    /\ Len(call.returned) = 12
    /\ call.returned[1].component = "CalculationTransparency"
    /\ call.returned[12].component = "PostSessionUrgency"


\* The components whose emit step fails on a response.
FailingComponents(response) ==
    LET steps == emitSteps(response)
    IN  { steps[i].component : i \in {j \in 1..Len(steps) : steps[j].taken /\ ~steps[j].ok} }

\* The place of the first failing component in the full sequence.
FirstFailure(response) ==
    LET full == FullSequence(response)
    IN  CHOOSE i \in 1..Len(full) :
            /\ full[i] \in FailingComponents(response)
            /\ \A j \in 1..(i - 1) : full[j] \notin FailingComponents(response)

\* C30: when a section of the response is missing so that an emit step fails,
\* processEnhancedAgentResponse still returns: the events emitted before the
\* failing step, a strict prefix of the full sequence in the same order, and
\* none of the later components.
C30_FailureReturnsStrictPrefix ==
    (EnhancedReturned /\ FailingComponents(call.in) # {}) =>
        LET full == FullSequence(call.in)
            got  == ComponentsOf(call.returned)
        IN  /\ Len(got) = FirstFailure(call.in) - 1
            /\ Len(got) < Len(full)
            /\ got = SubSeq(full, 1, Len(got))
            /\ \A i \in FirstFailure(call.in)..Len(full) :
                   \A j \in 1..Len(got) : got[j] # full[i]

\* A response without costOfDelay: the eight components before the delay
\* impact chart come back.
C30_Witness ==
    /\ EnhancedReturned
    /\ call.in = [ CompleteResponse EXCEPT !.costOfDelay = "absent" ]
    /\ Len(call.returned) = 8
    /\ call.returned[8].component = "RevenueOpportunityChart"

====
